---- MODULE Spec2Model ----
(***************************************************************************)
(* Model of the reconciliation engine of the stock x GA4 analysis app      *)
(* (src/app.py): the process-wide data_store, the handlers that write it   *)
(* (upload, sync-r2, fetch-ga4, scheduled-update, switch-period, startup)  *)
(* and the merge functions merge_and_analyze / merge_and_analyze_for_period.*)
(*                                                                         *)
(* Representation:                                                         *)
(*  - a DataFrame is [none |-> FALSE, columns |-> set of names,             *)
(*    rows |-> sequence of records]; Python None is [none |-> TRUE];        *)
(*  - a dict is a sequence of [k |-> key, v |-> value] in insertion order;  *)
(*  - a float is an exact fraction [num, den] (den > 0); den = 0 stands for *)
(*    the NaN/inf that a division by zero would leave in a column;          *)
(*  - revenue amounts are whole numbers.                                    *)
(***************************************************************************)
EXTENDS Integers, Sequences, FiniteSets, TLC

\* ------------------------------------------------------------------------
\* Bounds of the model
\* ------------------------------------------------------------------------
\* number of brands of BRANDS that take part (the first NumBrands of the list)
NumBrands == 2
\* number of requests handled after startup
MaxOps == 2

\* ------------------------------------------------------------------------
\* Program constants
\* ------------------------------------------------------------------------
BRANDS == <<"rady", "cherimi", "michellmacaron", "solni">>

EXCLUDED_BRAND == "Regalect"

period_types == <<"yesterday", "weekly", "3days">>

default_period == "yesterday"

ModelBrands == SubSeq(BRANDS, 1, NumBrands)

PeriodSet == {period_types[i] : i \in 1..Len(period_types)}

\* ------------------------------------------------------------------------
\* Python / pandas values
\* ------------------------------------------------------------------------
None == [none |-> TRUE]

\* NaN of a string column
NaN == "NaN"

DataFrame(cols, rws) == [none |-> FALSE, columns |-> cols, rows |-> rws]

IsNone(x) == x.none

\* exact fractions standing for floats
RECURSIVE Gcd(_, _)
Gcd(a, b) == IF b = 0 THEN a ELSE Gcd(b, a % b)

Abs(n) == IF n < 0 THEN -n ELSE n

NaNFloat == [num |-> 0, den |-> 0]

Frac(n, d) ==
  IF d = 0 THEN NaNFloat
  ELSE LET s == IF d < 0 THEN -1 ELSE 1
           g == Gcd(Abs(n), Abs(d))
       IN  [num |-> (s * n) \div g, den |-> (s * d) \div g]

Float(n) == [num |-> n, den |-> 1]

FracSub(a, b) == Frac(a.num * b.den - b.num * a.den, a.den * b.den)

FracAdd(a, b) == Frac(a.num * b.den + b.num * a.den, a.den * b.den)

\* k * a / d for whole k and d
FracScale(k, a, d) == Frac(k * a.num, a.den * d)

\* a >= b, a <= b for proper fractions
FracGe(a, b) == a.num * b.den >= b.num * a.den

FracLe(a, b) == a.num * b.den <= b.num * a.den

\* ------------------------------------------------------------------------
\* dict (insertion ordered)
\* ------------------------------------------------------------------------
EmptyDict == << >>

DictKeys(d) == {d[i].k : i \in 1..Len(d)}

DictGet(d, key) == d[CHOOSE i \in 1..Len(d) : d[i].k = key].v

\* d[key] = val: an existing key keeps its place, a new key goes last
RECURSIVE DictReplace(_, _, _)
DictReplace(d, key, val) ==
  IF d = << >> THEN << >>
  ELSE <<IF Head(d).k = key THEN [k |-> key, v |-> val] ELSE Head(d)>>
       \o DictReplace(Tail(d), key, val)

DictSet(d, key, val) ==
  IF key \in DictKeys(d) THEN DictReplace(d, key, val)
  ELSE Append(d, [k |-> key, v |-> val])

\* for k, v in src.items(): d[k] = v
RECURSIVE DictUpdate(_, _)
DictUpdate(d, src) ==
  IF src = << >> THEN d
  ELSE DictUpdate(DictSet(d, Head(src).k, Head(src).v), Tail(src))

\* ------------------------------------------------------------------------
\* Inputs: product master files
\* A stock cell is [ok, v]: ok = FALSE is a cell pd.to_numeric cannot parse.
\* ------------------------------------------------------------------------
Cell(n) == [ok |-> TRUE, v |-> n]

BadCell == [ok |-> FALSE, v |-> 0]

GivenUrl == [kind |-> "given", slug |-> "", sku |-> ""]

EmptyUrl == [kind |-> "empty", slug |-> "", sku |-> ""]

AllStockCols == {"web_stock", "adjust_stock", "expected_stock"}

MasterRow(sku, cls, brand, url, web, adj, exp) ==
  [sku_id |-> sku, product_class_id |-> cls, brand |-> brand, product_url |-> url,
   web_stock |-> web, adjust_stock |-> adj, expected_stock |-> exp]

MasterFile1 ==
  [stock_columns |-> AllStockCols, sku_column |-> TRUE,
   rows |-> << MasterRow("A1", "P1", "rady", GivenUrl, Cell(60), Cell(30), Cell(10)),
               MasterRow("A2", "P1", "rady", EmptyUrl, Cell(0), BadCell, Cell(0)),
               MasterRow("C1", "P2", "cherimi", EmptyUrl, Cell(3), Cell(0), Cell(0)),
               MasterRow("R1", "P3", EXCLUDED_BRAND, EmptyUrl, Cell(200), Cell(0), Cell(0)) >>]

MasterFile2 ==
  [stock_columns |-> AllStockCols, sku_column |-> TRUE,
   rows |-> << MasterRow("A1", "P1", "rady", EmptyUrl, Cell(7), Cell(-2), Cell(0)),
               MasterRow("C1", "P2", "cherimi", GivenUrl, Cell(0), Cell(0), Cell(0)),
               MasterRow("A2", "P1", "rady", EmptyUrl, Cell(9), Cell(0), Cell(0)),
               MasterRow("A3", "P4", "rady", EmptyUrl, Cell(12), Cell(0), Cell(0)),
               MasterRow("C2", "P2", "cherimi", EmptyUrl, Cell(1), Cell(-3), Cell(0)) >>]

\* a CSV that parses but has no SKU column: load_product_master accepts it
MasterFileNoSku ==
  [stock_columns |-> AllStockCols, sku_column |-> FALSE,
   rows |-> << [product_class_id |-> "P1", brand |-> "rady", product_url |-> EmptyUrl,
                web_stock |-> Cell(4), adjust_stock |-> Cell(0), expected_stock |-> Cell(0)] >>]

\* a CSV without the expected-stock column
MasterFileNoExpected ==
  [stock_columns |-> {"web_stock", "adjust_stock"}, sku_column |-> TRUE,
   rows |-> << [sku_id |-> "C1", product_class_id |-> "P2", brand |-> "cherimi",
                product_url |-> EmptyUrl, web_stock |-> BadCell, adjust_stock |-> Cell(2)],
               [sku_id |-> "A2", product_class_id |-> "P1", brand |-> "rady",
                product_url |-> EmptyUrl, web_stock |-> Cell(4), adjust_stock |-> Cell(1)],
               [sku_id |-> "A3", product_class_id |-> "P4", brand |-> "rady",
                product_url |-> EmptyUrl, web_stock |-> Cell(0), adjust_stock |-> Cell(0)] >>]

MasterFiles == {MasterFile1, MasterFile2, MasterFileNoSku, MasterFileNoExpected}

\* pd.to_numeric(errors='coerce').fillna(0).astype(int)
to_numeric(cell) == IF cell.ok THEN cell.v ELSE 0

generate_slug(brand) ==
  CASE brand = "rady" -> "rady"
    [] brand = "cherimi" -> "cherimi"
    [] brand = "michellmacaron" -> "michellmacaron"
    [] brand = "solni" -> "solni"
    [] OTHER -> ""

\* only the columns the file has are renamed, so a file without the SKU column
\* gives rows without sku_id
process_product_master_row(file, r) ==
  (IF file.sku_column THEN [sku_id |-> r.sku_id] ELSE <<>>) @@
  [product_class_id |-> r.product_class_id, brand |-> r.brand,
   product_url |-> r.product_url] @@
  [col \in AllStockCols \cap file.stock_columns |-> to_numeric(r[col])] @@
  [total_stock |-> IF AllStockCols \subseteq file.stock_columns
                   THEN to_numeric(r.web_stock) + to_numeric(r.adjust_stock)
                        + to_numeric(r.expected_stock)
                   ELSE 0]

MasterColumns ==
  {"sku_id", "product_class_id", "brand", "product_url", "web_stock", "adjust_stock",
   "expected_stock", "total_stock"}

RECURSIVE process_product_master_rows(_, _)
process_product_master_rows(file, rws) ==
  IF rws = << >> THEN << >>
  ELSE <<process_product_master_row(file, Head(rws))>>
       \o process_product_master_rows(file, Tail(rws))

process_product_master_df(file) ==
  DataFrame((MasterColumns \ (IF file.sku_column THEN {} ELSE {"sku_id"}))
              \ (AllStockCols \ file.stock_columns),
            process_product_master_rows(file, file.rows))

\* ------------------------------------------------------------------------
\* Inputs: fact batches (GA4 API answers and uploaded exports)
\* ------------------------------------------------------------------------
FactColumns == {"sku_id", "item_name", "views", "add_to_cart", "purchases", "revenue"}

Fact(sku, name, v, c, p, r) ==
  [sku_id |-> sku, item_name |-> name, views |-> v, add_to_cart |-> c,
   purchases |-> p, revenue |-> r]

Days(p) == CASE p = "yesterday" -> 1 [] p = "3days" -> 3 [] p = "weekly" -> 7

GaPeriodType(p) == CASE p = "yesterday" -> "daily" [] p = "3days" -> "3days" [] p = "weekly" -> "weekly"

\* the rows of a fetch over `d` days: every metric grows with the window
RECURSIVE Scale(_, _)
Scale(rws, d) ==
  IF rws = << >> THEN << >>
  ELSE LET r == Head(rws)
       IN  <<Fact(r.sku_id, r.item_name, r.views * d, r.add_to_cart * d,
                  r.purchases * d, r.revenue * d)>> \o Scale(Tail(rws), d)

RadyRows ==
  << Fact("A1", "Dress", 200, 10, 1, 500),
     Fact("C1", NaN, 10, 1, 0, 0),
     Fact("X9", "Ghost", 5, 0, 0, 0) >>

CherimiRows ==
  << Fact("C1", "Bag", 15, 1, 1, 300),
     Fact("A1", "Dress-ch", 0, 0, 0, 0),
     Fact("R1", "Rega", 80, 4, 2, 900),
     Fact("C2", "Pouch", 30, 2, 1, 100) >>

RadyPrevRows ==
  << Fact("A1", "Dress", 100, 5, 1, 500),
     Fact("A2", "Dress-S", 60, 3, 2, 400) >>

CherimiPrevRows == << Fact("C1", "Bag", 50, 0, 2, 200) >>

RadyPartialRows == << Fact("A2", "Dress-S", 40, 2, 1, 100) >>

\* what the analytics API answers at the time of a fetch
Worlds == {"down", "full", "partial", "empty"}

Info(rws, ptype, days) ==
  [none |-> FALSE, data |-> DataFrame(IF rws = << >> THEN {} ELSE FactColumns, rws),
   period |-> [period_type |-> ptype, days |-> days]]

\* fetch_ecommerce_data for the current window: None when the call fails
fetch_current(w, brand, p) ==
  CASE w = "full" /\ brand = "rady" -> Info(Scale(RadyRows, Days(p)), GaPeriodType(p), Days(p))
    [] w = "full" /\ brand = "cherimi" -> Info(Scale(CherimiRows, Days(p)), GaPeriodType(p), Days(p))
    [] w = "partial" /\ brand = "rady" -> Info(Scale(RadyPartialRows, Days(p)), GaPeriodType(p), Days(p))
    [] w = "empty" /\ brand = "rady" -> Info(<< >>, GaPeriodType(p), Days(p))
    [] OTHER -> None

\* fetch_day_before_yesterday_data / fetch_previous_3days_data / fetch_previous_weekly_data
fetch_previous(w, brand, p) ==
  CASE w = "full" /\ brand = "rady" -> Info(Scale(RadyPrevRows, Days(p)), GaPeriodType(p), Days(p))
    [] w = "full" /\ brand = "cherimi" -> Info(Scale(CherimiPrevRows, Days(p)), GaPeriodType(p), Days(p))
    [] OTHER -> None

RECURSIVE fetch_brands(_, _, _)
fetch_brands(w, p, brands) ==
  IF brands = << >> THEN EmptyDict
  ELSE LET result == fetch_current(w, Head(brands), p)
           rest == fetch_brands(w, p, Tail(brands))
       IN  IF IsNone(result) THEN rest
           ELSE <<[k |-> Head(brands), v |-> result]>> \o rest

fetch_all_brands_data(w, p) == fetch_brands(w, p, ModelBrands)

\* an uploaded GA4 export: "bad" cannot be parsed in any encoding or has no Item ID
UploadRows(brand) ==
  CASE brand = "rady" -> RadyRows
    [] brand = "cherimi" -> CherimiRows
    [] OTHER -> << Fact("A2", "Dress-S", 30, 3, 1, 100) >>

load_ga_sales(brand) == Info(UploadRows(brand), "custom", 2)

\* ------------------------------------------------------------------------
\* pandas helpers
\* ------------------------------------------------------------------------
\* pd.concat(frames, ignore_index=True) over the rows of a list of frames
RECURSIVE concat(_)
concat(frames) ==
  IF frames = << >> THEN << >> ELSE Head(frames).rows \o concat(Tail(frames))

\* a faulty filter: batches of zero rows are kept
RECURSIVE ga_list_of_all(_)
ga_list_of_all(d) ==
  IF d = << >> THEN << >> ELSE <<Head(d).v.data>> \o ga_list_of_all(Tail(d))

\* [info['data'] for info in d.values() if info and 'data' in info and len(info['data']) > 0]
RECURSIVE ga_list_of(_)
ga_list_of(d) ==
  IF d = << >> THEN << >>
  ELSE IF Len(Head(d).v.data.rows) > 0
       THEN <<Head(d).v.data>> \o ga_list_of(Tail(d))
       ELSE ga_list_of(Tail(d))

\* a faulty aggregation: 'first' where 'sum' is meant
RECURSIVE agg_sum_first(_, _, _)
agg_sum_first(rws, sku, col) ==
  IF rws = << >> THEN 0
  ELSE IF Head(rws).sku_id = sku THEN Head(rws)[col]
       ELSE agg_sum_first(Tail(rws), sku, col)

\* agg 'sum' of one column over the rows of a group
RECURSIVE agg_sum(_, _, _)
agg_sum(rws, sku, col) ==
  IF rws = << >> THEN 0
  ELSE (IF Head(rws).sku_id = sku THEN Head(rws)[col] ELSE 0) + agg_sum(Tail(rws), sku, col)

\* agg 'first': the first non-null value of the group, NaN when all are null
RECURSIVE agg_first(_, _)
agg_first(rws, sku) ==
  IF rws = << >> THEN NaN
  ELSE IF Head(rws).sku_id = sku /\ Head(rws).item_name # NaN
       THEN Head(rws).item_name
       ELSE agg_first(Tail(rws), sku)

group_keys(rws) == {rws[i].sku_id : i \in 1..Len(rws)}

\* ga.groupby('sku_id').agg({'item_name': 'first', 'views': 'sum', ...}): one row per key
groupby_agg(rws, sku) ==
  [item_name |-> agg_first(rws, sku),
   views |-> agg_sum(rws, sku, "views"),
   add_to_cart |-> agg_sum(rws, sku, "add_to_cart"),
   purchases |-> agg_sum(rws, sku, "purchases"),
   revenue |-> agg_sum(rws, sku, "revenue")]

\* the fact columns of a product without a fact row, after fillna(0)
unmatched == [item_name |-> NaN, views |-> 0, add_to_cart |-> 0, purchases |-> 0, revenue |-> 0]

\* a faulty join: how='inner', which drops the products without a fact row
RECURSIVE left_merge_inner(_, _)
left_merge_inner(pm_rows, ga_rows) ==
  IF pm_rows = << >> THEN << >>
  ELSE (IF Head(pm_rows).sku_id \in group_keys(ga_rows)
        THEN <<Head(pm_rows) @@ groupby_agg(ga_rows, Head(pm_rows).sku_id)>>
        ELSE << >>)
       \o left_merge_inner(Tail(pm_rows), ga_rows)

\* pm.merge(ga, on='sku_id', how='left') with the numeric gaps filled by fillna(0):
\* the rows of pm in pm's order, each with the fact row of its sku_id
RECURSIVE left_merge(_, _)
left_merge(pm_rows, ga_rows) ==
  IF pm_rows = << >> THEN << >>
  ELSE <<Head(pm_rows) @@ (IF Head(pm_rows).sku_id \in group_keys(ga_rows)
                           THEN groupby_agg(ga_rows, Head(pm_rows).sku_id)
                           ELSE unmatched)>>
       \o left_merge(Tail(pm_rows), ga_rows)

\* df[df['brand'] != brand]: the rows of another brand, in order
RECURSIVE drop_brand(_, _)
drop_brand(rws, brand) ==
  IF rws = << >> THEN << >>
  ELSE (IF Head(rws).brand # brand THEN <<Head(rws)>> ELSE << >>)
       \o drop_brand(Tail(rws), brand)

RECURSIVE insert_sorted(_, _)
insert_sorted(x, srt) ==
  IF srt = << >> THEN <<x>>
  ELSE IF x <= Head(srt) THEN <<x>> \o srt
       ELSE <<Head(srt)>> \o insert_sorted(x, Tail(srt))

RECURSIVE sort_values(_)
sort_values(vals) ==
  IF vals = << >> THEN << >> ELSE insert_sorted(Head(vals), sort_values(Tail(vals)))

RECURSIVE column(_, _)
column(rws, col) ==
  IF rws = << >> THEN << >> ELSE <<Head(rws)[col]>> \o column(Tail(rws), col)

\* Series.quantile(q10 / 10), linear interpolation between the two nearest ranks
quantile(vals, q10) ==
  IF vals = << >> THEN NaNFloat
  ELSE LET srt == sort_values(vals)
           n == Len(srt)
           pos10 == (n - 1) * q10
           lo == (pos10 \div 10) + 1
           hi == IF lo < n THEN lo + 1 ELSE n
           fr == pos10 % 10
       IN  Frac(srt[lo] * 10 + (srt[hi] - srt[lo]) * fr, 10)

\* ------------------------------------------------------------------------
\* merge_and_analyze
\* ------------------------------------------------------------------------
generate_product_url(row) ==
  IF row.product_url.kind = "given" THEN row.product_url
  ELSE IF generate_slug(row.brand) # "" /\ row.sku_id # ""
       THEN [kind |-> "generated", slug |-> generate_slug(row.brand), sku |-> row.sku_id]
       ELSE EmptyUrl

\* a faulty guard: >= 0 where > 0 is meant
rate_unguarded(num, den) == IF den >= 0 THEN Frac(num * 100, den) ELSE Float(0)

\* (x[num] / x[den] * 100) if x[den] > 0 else 0
rate(num, den) == IF den > 0 THEN Frac(num * 100, den) ELSE Float(0)

\* x['revenue'] / x['total_stock'] if x['total_stock'] > 0 else 0
stock_efficiency(revenue, total_stock) ==
  IF total_stock > 0 THEN Frac(revenue, total_stock) ELSE Float(0)

\* a faulty percent change: 0 whenever the previous value is 0
delta_pct_no_hundred(cur, prev) ==
  IF prev > 0 THEN Frac((cur - prev) * 100, prev) ELSE Float(0)

\* ((x[col] - x[prev]) / x[prev] * 100) if x[prev] > 0 else (100 if x[col] > 0 else 0)
delta_pct(cur, prev) ==
  IF prev > 0 THEN Frac((cur - prev) * 100, prev)
  ELSE IF cur > 0 THEN Float(100) ELSE Float(0)

is_problem(row, stock_threshold, revenue_threshold) ==
  FracGe(Float(row.total_stock), stock_threshold)
  /\ FracLe(Float(row.revenue), revenue_threshold)

\* purchases < views * 0.05
is_opportunity(row, views_threshold) ==
  FracGe(Float(row.views), views_threshold)
  /\ row.total_stock <= 5
  /\ row.purchases * 100 < row.views * 5

AnalysisColumns == {"cvr", "cart_rate", "stock_efficiency", "is_problem", "is_opportunity"}

\* the cvr, cart_rate and stock_efficiency columns (and the product_url filled in)
RECURSIVE add_rates(_)
add_rates(rws) ==
  IF rws = << >> THEN << >>
  ELSE LET r == Head(rws)
       IN  <<[r EXCEPT !.product_url = generate_product_url(r)]
             @@ [cvr |-> rate(r.purchases, r.views),
                 cart_rate |-> rate(r.add_to_cart, r.views),
                 stock_efficiency |-> stock_efficiency(r.revenue, r.total_stock)]>>
           \o add_rates(Tail(rws))

\* faulty flags: a record flagged as a problem is never flagged as an opportunity
RECURSIVE add_flags_exclusive(_, _, _, _)
add_flags_exclusive(rws, stock_threshold, revenue_threshold, views_threshold) ==
  IF rws = << >> THEN << >>
  ELSE LET r == Head(rws)
       IN  <<r @@ [is_problem |-> is_problem(r, stock_threshold, revenue_threshold),
                   is_opportunity |-> /\ is_opportunity(r, views_threshold)
                                      /\ ~is_problem(r, stock_threshold, revenue_threshold)]>>
           \o add_flags_exclusive(Tail(rws), stock_threshold, revenue_threshold,
                                  views_threshold)

\* the is_problem and is_opportunity columns against the three thresholds
RECURSIVE add_flags(_, _, _, _)
add_flags(rws, stock_threshold, revenue_threshold, views_threshold) ==
  IF rws = << >> THEN << >>
  ELSE LET r == Head(rws)
       IN  <<r @@ [is_problem |-> is_problem(r, stock_threshold, revenue_threshold),
                   is_opportunity |-> is_opportunity(r, views_threshold)]>>
           \o add_flags(Tail(rws), stock_threshold, revenue_threshold, views_threshold)

\* a faulty order: the excluded brand is left out of the thresholds
add_metrics_after_exclusion(rws) ==
  add_flags(add_rates(rws),
            quantile(column(drop_brand(rws, EXCLUDED_BRAND), "total_stock"), 7),
            quantile(column(drop_brand(rws, EXCLUDED_BRAND), "revenue"), 3),
            quantile(column(drop_brand(rws, EXCLUDED_BRAND), "views"), 7))

\* the thresholds are quantiles over the whole joined table
add_metrics(rws) ==
  add_flags(add_rates(rws),
            quantile(column(rws, "total_stock"), 7),
            quantile(column(rws, "revenue"), 3),
            quantile(column(rws, "views"), 7))

DeltaColumns ==
  {"prev_views", "prev_add_to_cart", "prev_purchases", "prev_revenue",
   "delta_views", "delta_add_to_cart", "delta_purchases", "delta_revenue",
   "delta_views_pct", "delta_add_to_cart_pct", "delta_purchases_pct", "delta_revenue_pct",
   "prev_cvr", "delta_cvr"}

\* merged.merge(ga_prev, on='sku_id', how='left'), fillna(0), then the delta columns
RECURSIVE add_deltas(_, _)
add_deltas(rws, prev_rows) ==
  IF rws = << >> THEN << >>
  ELSE LET r == Head(rws)
           pv == agg_sum(prev_rows, r.sku_id, "views")
           pc_ == agg_sum(prev_rows, r.sku_id, "add_to_cart")
           pp == agg_sum(prev_rows, r.sku_id, "purchases")
           pr == agg_sum(prev_rows, r.sku_id, "revenue")
       IN  <<r @@ [prev_views |-> pv, prev_add_to_cart |-> pc_,
                   prev_purchases |-> pp, prev_revenue |-> pr,
                   delta_views |-> r.views - pv,
                   delta_add_to_cart |-> r.add_to_cart - pc_,
                   delta_purchases |-> r.purchases - pp,
                   delta_revenue |-> r.revenue - pr,
                   delta_views_pct |-> delta_pct(r.views, pv),
                   delta_add_to_cart_pct |-> delta_pct(r.add_to_cart, pc_),
                   delta_purchases_pct |-> delta_pct(r.purchases, pp),
                   delta_revenue_pct |-> delta_pct(r.revenue, pr),
                   prev_cvr |-> rate(pp, pv),
                   delta_cvr |-> FracSub(r.cvr, rate(pp, pv))]>>
           \o add_deltas(Tail(rws), prev_rows)

\* pm.merge(ga, on='sku_id', how='left') raises KeyError when pm has no sku_id
\* column; the call then stores nothing
KeyError == [none |-> TRUE, error |-> "KeyError"]

merge_raises(pm, ga_dict) ==
  /\ ~IsNone(pm)
  /\ ga_list_of(ga_dict) # << >>
  /\ "sku_id" \notin pm.columns

\* the value merge_and_analyze returns: None, or the frame it stores in
\* data_store['merged_data'] (KeyError: it raised instead of returning)
merge_and_analyze(pm, ga_dict, ga_prev_dict) ==
  IF IsNone(pm) \/ ga_dict = EmptyDict THEN None
  ELSE IF ga_list_of(ga_dict) = << >> THEN None
  ELSE IF merge_raises(pm, ga_dict) THEN KeyError
  ELSE LET ga == concat(ga_list_of(ga_dict))
           merged == drop_brand(add_metrics(left_merge(pm.rows, ga)), EXCLUDED_BRAND)
           cols == pm.columns \cup FactColumns \cup AnalysisColumns
       IN  IF ga_prev_dict # EmptyDict /\ ga_list_of(ga_prev_dict) # << >>
           THEN DataFrame(cols \cup DeltaColumns,
                          add_deltas(merged, concat(ga_list_of(ga_prev_dict))))
           ELSE DataFrame(cols, merged)

\* ------------------------------------------------------------------------
\* merge_and_analyze_for_period: the period entry after the call
\* ------------------------------------------------------------------------
\* a faulty per-period merge: the new records are appended to the stored ones
merge_and_analyze_for_period_append(period_data, pm) ==
  IF IsNone(pm) \/ ga_list_of(period_data.ga_sales) = << >> THEN period_data
  ELSE IF "sku_id" \notin pm.columns THEN period_data
  ELSE LET joined == left_merge(pm.rows, concat(ga_list_of(period_data.ga_sales)))
       IN  [period_data EXCEPT
              !.merged_data =
                 DataFrame(pm.columns \cup FactColumns,
                           (IF IsNone(@) THEN << >> ELSE @.rows) \o joined)]

merge_and_analyze_for_period(period_data, pm) ==
  IF IsNone(pm) \/ period_data.ga_sales = EmptyDict THEN period_data
  ELSE IF ga_list_of(period_data.ga_sales) = << >> THEN period_data
  ELSE IF merge_raises(pm, period_data.ga_sales) THEN period_data
  ELSE LET merged == DataFrame(pm.columns \cup FactColumns,
                               left_merge(pm.rows, concat(ga_list_of(period_data.ga_sales))))
           prev_list == ga_list_of(period_data.ga_sales_previous)
       IN  IF period_data.ga_sales_previous # EmptyDict /\ prev_list # << >>
           THEN [period_data EXCEPT
                   !.merged_data = merged,
                   !.merged_data_previous =
                      DataFrame(pm.columns \cup FactColumns,
                                left_merge(pm.rows, concat(prev_list)))]
           ELSE [period_data EXCEPT !.merged_data = merged]

\* ------------------------------------------------------------------------
\* State: data_store and the position of the running request
\* ------------------------------------------------------------------------
VARIABLES
  product_master,        \* data_store['product_master']
  ga_sales,              \* data_store['ga_sales']: dict brand -> info
  ga_sales_previous,     \* data_store['ga_sales_previous']
  channel_data,          \* data_store['channel_data']
  merged_data,           \* data_store['merged_data']
  merged_data_previous,  \* data_store['merged_data_previous']
  current_period,        \* data_store['current_period']
  periods_data,          \* data_store['periods_data']: period type -> entry
  pc,                    \* [at, i, w]: where the process is (boot, idle, or inside
                         \* scheduled_update, whose run meets the API in state w)
  ops,                   \* requests handled so far
  last,                  \* the step taken last: [op, period, reconciled]
  results_summary        \* the results_summary of the scheduled update under way,
                         \* or of the one that returned last

vars == <<product_master, ga_sales, ga_sales_previous, channel_data, merged_data,
          merged_data_previous, current_period, periods_data, pc, ops, last,
          results_summary>>

active_vars == <<ga_sales, ga_sales_previous, channel_data, merged_data,
                 merged_data_previous, current_period>>

\* ------------------------------------------------------------------------
\* switch_period_data: the active slot after the call, as a record of the
\* data_store keys it assigns (the .copy() of a dict is the same value)
\* ------------------------------------------------------------------------
\* a faulty switch: it reconciles again instead of copying the stored result
switch_period_data_recompute(period_data, period_type) ==
  [ga_sales |-> period_data.ga_sales,
   ga_sales_previous |-> period_data.ga_sales_previous,
   channel_data |-> period_data.channel_data,
   merged_data |-> merge_and_analyze(product_master, period_data.ga_sales,
                                     period_data.ga_sales_previous),
   merged_data_previous |-> period_data.merged_data_previous,
   current_period |-> period_type]

switch_period_data(period_data, period_type) ==
  [ga_sales |-> period_data.ga_sales,
   ga_sales_previous |-> period_data.ga_sales_previous,
   channel_data |-> period_data.channel_data,
   merged_data |-> period_data.merged_data,
   merged_data_previous |-> period_data.merged_data_previous,
   current_period |-> period_type]

EmptyPeriodData ==
  [ga_sales |-> EmptyDict, ga_sales_previous |-> EmptyDict, channel_data |-> EmptyDict,
   merged_data |-> None, merged_data_previous |-> None]

At(a, i, w) == [at |-> a, i |-> i, w |-> w]

Idle == At("idle", 0, "-")

Boot == At("boot", 0, "-")

Step(op, p, rec) == [op |-> op, period |-> p, reconciled |-> rec]

\* how a call of merge_and_analyze ended
Outcome(result) ==
  IF result = KeyError THEN "raised" ELSE IF IsNone(result) THEN "none" ELSE "ok"

Init ==
  /\ product_master = None
  /\ ga_sales = EmptyDict
  /\ ga_sales_previous = EmptyDict
  /\ channel_data = EmptyDict
  /\ merged_data = None
  /\ merged_data_previous = None
  /\ current_period = "yesterday"
  /\ periods_data = [p \in PeriodSet |-> EmptyPeriodData]
  /\ pc = Boot
  /\ ops = 0
  /\ last = Step("init", "-", "not_run")
  /\ results_summary = None

\* ------------------------------------------------------------------------
\* channel data of a fetch (fetch_all_brands_channel_data)
\* ------------------------------------------------------------------------
ChannelRow(channel, source, sessions, users, purchases, revenue) ==
  [channel |-> channel, source |-> source, sessions |-> sessions, users |-> users,
   purchases |-> purchases, revenue |-> revenue]

\* the report of the current window: one row per channel group and source
ChannelCurrentRows ==
  << ChannelRow("Organic Search", "google", 100, 80, 4, 1000),
     ChannelRow("Direct", "(direct)", 50, 40, 5, 2000),
     ChannelRow("Organic Search", "yahoo", 20, 15, 1, 200),
     ChannelRow("Paid Social", "instagram", 30, 25, 1, 300) >>

\* the report of the window before: no Paid Social session, nothing sold on Direct
ChannelPreviousRows ==
  << ChannelRow("Organic Search", "google", 70, 50, 2, 600),
     ChannelRow("Direct", "(direct)", 50, 40, 0, 0) >>

\* results[brand] = {'current': df, 'previous': prev_df, 'period': {...}}; the
\* previous report is None when its call fails
ChannelInfo(w, p) ==
  [current |-> ChannelCurrentRows,
   previous |-> IF w = "full" THEN DataFrame({}, ChannelPreviousRows) ELSE None,
   period |-> p]

fetch_all_brands_channel_data(w, p) ==
  CASE w = "full" -> << [k |-> "rady", v |-> ChannelInfo(w, p)],
                        [k |-> "cherimi", v |-> ChannelInfo(w, p)] >>
    [] w = "partial" -> << [k |-> "rady", v |-> ChannelInfo(w, p)] >>
    [] OTHER -> EmptyDict

\* for brand in results.keys(): prev_result = fetch_...(brand); if prev_result: d[brand] = prev_result
RECURSIVE store_previous(_, _, _, _)
store_previous(d, w, p, keys) ==
  IF keys = << >> THEN d
  ELSE LET prev_result == fetch_previous(w, Head(keys).k, p)
       IN  store_previous(IF IsNone(prev_result) THEN d ELSE DictSet(d, Head(keys).k, prev_result),
                          w, p, Tail(keys))

MasterFileOf(name) ==
  CASE name = "file1" -> MasterFile1
    [] name = "file2" -> MasterFile2
    [] name = "nosku" -> MasterFileNoSku
    [] name = "noexpected" -> MasterFileNoExpected

\* ------------------------------------------------------------------------
\* Startup: init_from_r2
\* r2 = "disabled": R2 is not configured or holds no master;
\* r2 = "master": a master and no GA4 file; r2 = "master_ga": a master and a GA4 file of rady
\* ------------------------------------------------------------------------
InitFromR2(r2) ==
  /\ pc = Boot
  /\ pc' = Idle
  /\ IF r2 = "disabled"
     THEN /\ UNCHANGED <<product_master, ga_sales, merged_data>>
          /\ last' = Step("init_from_r2", "-", "not_run")
     ELSE \E pm \in {process_product_master_df(MasterFile1)},
             ga \in {IF r2 = "master_ga"
                     THEN DictSet(ga_sales, "rady", Info(RadyRows, "custom", 0))
                     ELSE ga_sales} :
          \E result \in {merge_and_analyze(pm, ga, ga_sales_previous)} :
              /\ product_master' = pm
              /\ ga_sales' = ga
              /\ IF ga # EmptyDict
                 THEN /\ merged_data' = IF IsNone(result) THEN merged_data ELSE result
                      /\ last' = Step("init_from_r2", "-", Outcome(result))
                 ELSE /\ UNCHANGED merged_data
                      /\ last' = Step("init_from_r2", "-", "not_run")
  /\ UNCHANGED <<ga_sales_previous, channel_data, merged_data_previous, current_period,
                 periods_data, ops, results_summary>>

\* ------------------------------------------------------------------------
\* POST /upload
\* pmFile: "none" (no file), "bad" (load_product_master raises), "file2",
\*         "nosku" (a CSV without the SKU column)
\* merge_and_analyze is called outside any try: when it raises the request ends
\* with the assignments made so far in place
\* gaFiles[brand]: "none", "bad" (load_ga_sales raises), "ok"
\* ------------------------------------------------------------------------
RECURSIVE upload_ga(_, _, _)
upload_ga(d, gaFiles, brands) ==
  IF brands = << >> THEN d
  ELSE upload_ga(IF gaFiles[Head(brands)] = "ok"
                 THEN DictSet(d, Head(brands), load_ga_sales(Head(brands)))
                 ELSE d,
                 gaFiles, Tail(brands))

Upload(pmFile, gaFiles) ==
  /\ pc = Idle
  /\ ops < MaxOps
  /\ ops' = ops + 1
  /\ \E pm \in {IF pmFile \in {"file1", "file2", "nosku"}
                 THEN process_product_master_df(MasterFileOf(pmFile))
                 ELSE product_master},
        ga \in {upload_ga(ga_sales, gaFiles, ModelBrands)} :
     \E result \in {merge_and_analyze(pm, ga, ga_sales_previous)} :
         /\ product_master' = pm
         /\ ga_sales' = ga
         /\ IF ~IsNone(pm) /\ ga # EmptyDict
            THEN /\ merged_data' = IF IsNone(result) THEN merged_data ELSE result
                 /\ last' = Step("upload", "-", Outcome(result))
            ELSE /\ UNCHANGED merged_data
                 /\ last' = Step("upload", "-", "not_run")
  /\ UNCHANGED <<ga_sales_previous, channel_data, merged_data_previous, current_period,
                 periods_data, pc, results_summary>>

\* ------------------------------------------------------------------------
\* POST /sync-r2
\* r2File: "none" (R2 disabled, no master found, or the download raises), "file1",
\*         "noexpected" (a master without the expected-stock column)
\* ------------------------------------------------------------------------
SyncR2(r2File) ==
  /\ pc = Idle
  /\ ops < MaxOps
  /\ ops' = ops + 1
  /\ IF r2File = "none"
     THEN /\ UNCHANGED <<product_master, merged_data>>
          /\ last' = Step("sync_r2", "-", "not_run")
     ELSE \E pm \in {process_product_master_df(MasterFileOf(r2File))} :
          \E result \in {merge_and_analyze(pm, ga_sales, ga_sales_previous)} :
              /\ product_master' = pm
              /\ IF ga_sales # EmptyDict
                 THEN /\ merged_data' = IF IsNone(result) THEN merged_data ELSE result
                      /\ last' = Step("sync_r2", "-", Outcome(result))
                 ELSE /\ UNCHANGED merged_data
                      /\ last' = Step("sync_r2", "-", "not_run")
  /\ UNCHANGED <<ga_sales, ga_sales_previous, channel_data, merged_data_previous,
                 current_period, periods_data, pc, results_summary>>

\* ------------------------------------------------------------------------
\* POST /fetch-ga4 with form field period_type = p, the API answering as world w
\* ------------------------------------------------------------------------
FetchGa4(p, w) ==
  /\ pc = Idle
  /\ ops < MaxOps
  /\ ops' = ops + 1
  /\ \E results \in {fetch_all_brands_data(w, p)} :
     \E ga \in {DictUpdate(ga_sales, results)},
        prev \in {store_previous(ga_sales_previous, w, p, results)} :
     \E result \in {merge_and_analyze(product_master, ga, prev)} :
         IF results = EmptyDict
         THEN /\ UNCHANGED <<ga_sales, ga_sales_previous, channel_data, merged_data>>
              /\ last' = Step("fetch_ga4", p, "not_run")
         ELSE /\ ga_sales' = ga
              /\ ga_sales_previous' = prev
              /\ channel_data' = DictUpdate(channel_data, fetch_all_brands_channel_data(w, p))
              /\ IF ~IsNone(product_master)
                 THEN /\ merged_data' = IF IsNone(result) THEN merged_data ELSE result
                      /\ last' = Step("fetch_ga4", p, Outcome(result))
                 ELSE /\ UNCHANGED merged_data
                      /\ last' = Step("fetch_ga4", p, "not_run")
  /\ UNCHANGED <<product_master, merged_data_previous, current_period, periods_data, pc,
                 results_summary>>

\* ------------------------------------------------------------------------
\* GET /switch-period/<p>
\* ------------------------------------------------------------------------
ApplySwitch(slot) ==
  /\ ga_sales' = slot.ga_sales
  /\ ga_sales_previous' = slot.ga_sales_previous
  /\ channel_data' = slot.channel_data
  /\ merged_data' = slot.merged_data
  /\ merged_data_previous' = slot.merged_data_previous
  /\ current_period' = slot.current_period

SwitchPeriod(p) ==
  /\ pc = Idle
  /\ ops < MaxOps
  /\ ops' = ops + 1
  /\ IF periods_data[p].ga_sales = EmptyDict
     THEN /\ UNCHANGED active_vars
          /\ last' = Step("switch_refused", p, "not_run")
     ELSE /\ ApplySwitch(switch_period_data(periods_data[p], p))
          /\ last' = Step("switch", p, "not_run")
  /\ UNCHANGED <<product_master, periods_data, pc, results_summary>>

\* ------------------------------------------------------------------------
\* POST /api/scheduled-update, one step per loop iteration and per call
\*   fetch 1..3 : the body of `for period_type in period_types` (fetch and store)
\*   switch 1   : switch_period_data(default_period) before the analysis
\*   merge 1..3 : merge_and_analyze_for_period(period_type), only with a product master
\*   switch 2   : switch_period_data(default_period) after the analysis
\* ------------------------------------------------------------------------
\* a faulty store: the three period entries share one set of dicts
store_period_facts_shared(pd, p, w) ==
  LET results == fetch_all_brands_data(w, p)
  IN  IF results = EmptyDict THEN pd
      ELSE [q \in DOMAIN pd |->
              [pd[q] EXCEPT !.ga_sales = DictUpdate(@, results),
                            !.ga_sales_previous = store_previous(@, w, p, results),
                            !.channel_data = DictUpdate(@, fetch_all_brands_channel_data(w, p))]]

\* a faulty store: a fetch without result wipes the facts stored for the period type
store_period_facts_clearing(pd, p, w) ==
  LET results == fetch_all_brands_data(w, p)
  IN  IF results = EmptyDict THEN [pd EXCEPT ![p] = EmptyPeriodData]
      ELSE [pd EXCEPT ![p] =
              [@ EXCEPT !.ga_sales = DictUpdate(@, results),
                        !.ga_sales_previous = store_previous(@, w, p, results),
                        !.channel_data = DictUpdate(@, fetch_all_brands_channel_data(w, p))]]

\* the period store after one iteration of the fetch loop for period type p
store_period_facts(pd, p, w) ==
  LET results == fetch_all_brands_data(w, p)
  IN  IF results = EmptyDict THEN pd
      ELSE [pd EXCEPT ![p] =
              [@ EXCEPT !.ga_sales = DictUpdate(@, results),
                        !.ga_sales_previous = store_previous(@, w, p, results),
                        !.channel_data = DictUpdate(@, fetch_all_brands_channel_data(w, p))]]

\* the period store after merge_and_analyze_for_period(p)
reconcile_period(pd, p, pm) ==
  [pd EXCEPT ![p] = merge_and_analyze_for_period(@, pm)]

\* results_summary as the request starts
NewSummary == [none |-> FALSE, periods |-> EmptyDict, success |-> TRUE, errors |-> << >>]

\* results_summary after one iteration of the fetch loop: the period's entry
\* with the brands stored, and for a fetch without result or an exception
\* success False for the period and one more entry in errors
summarize_fetch(summary, p, results) ==
  [summary EXCEPT
     !.periods = DictSet(@, p, [brands |-> DictKeys(results), success |-> results # EmptyDict]),
     !.errors = IF results = EmptyDict THEN Append(@, p) ELSE @]

\* ok = FALSE: every call of this iteration's fetch_all_brands_data fails
SchedFetch(w, ok) ==
  /\ \/ pc = Idle /\ ops < MaxOps /\ ops' = ops + 1
     \/ pc.at = "fetch" /\ w = pc.w /\ ops' = ops
  /\ LET i == IF pc = Idle THEN 1 ELSE pc.i
         p == period_types[i]
     IN  /\ periods_data' = store_period_facts(periods_data, p, IF ok THEN w ELSE "down")
         /\ results_summary' =
              summarize_fetch(IF pc = Idle THEN NewSummary ELSE results_summary, p,
                              fetch_all_brands_data(IF ok THEN w ELSE "down", p))
         /\ pc' = IF i < Len(period_types) THEN At("fetch", i + 1, w) ELSE At("switch", 1, w)
         /\ last' = Step("sched_fetch", p, "not_run")
  /\ UNCHANGED <<product_master, active_vars>>

SchedSwitch ==
  /\ pc.at = "switch"
  /\ ApplySwitch(switch_period_data(periods_data[default_period], default_period))
  /\ pc' = IF pc.i = 1 /\ ~IsNone(product_master) THEN At("merge", 1, pc.w) ELSE Idle
  /\ last' = Step("sched_switch", default_period, "not_run")
  /\ UNCHANGED <<product_master, periods_data, ops, results_summary>>

SchedMerge ==
  /\ pc.at = "merge"
  /\ LET p == period_types[pc.i]
         after == reconcile_period(periods_data, p, product_master)
         raised == merge_raises(product_master, periods_data[p].ga_sales)
     IN  /\ periods_data' = after
         /\ last' = Step("sched_merge", p,
                         IF raised THEN "raised"
                         ELSE IF ga_list_of(periods_data[p].ga_sales) = << >> THEN "none"
                         ELSE "ok")
         \* an exception ends scheduled_update in its outer except clause
         /\ pc' = IF raised THEN Idle
                  ELSE IF pc.i < Len(period_types) THEN At("merge", pc.i + 1, pc.w)
                  ELSE At("switch", 2, pc.w)
         /\ results_summary' =
              IF raised
              THEN [results_summary EXCEPT !.success = FALSE, !.errors = Append(@, "KeyError")]
              ELSE results_summary
  /\ UNCHANGED <<product_master, active_vars, ops>>

\* ------------------------------------------------------------------------
\* Queries over the active MergedRecord set
\* ------------------------------------------------------------------------
\* the keys of df.groupby('brand'), which pandas sorts
SortedBrands == <<"cherimi", "michellmacaron", "rady", "solni">>

\* .agg('sum') of a numeric column over the rows of one brand
RECURSIVE brand_sum(_, _, _)
brand_sum(rws, brand, col) ==
  IF rws = << >> THEN 0
  ELSE (IF Head(rws).brand = brand THEN Head(rws)[col] ELSE 0)
       + brand_sum(Tail(rws), brand, col)

\* .agg('sum') of a boolean column, and 'count': the number of rows of the brand
RECURSIVE brand_count(_, _, _)
brand_count(rws, brand, col) ==
  IF rws = << >> THEN 0
  ELSE (IF Head(rws).brand = brand /\ (col = "sku_id" \/ Head(rws)[col]) THEN 1 ELSE 0)
       + brand_count(Tail(rws), brand, col)

\* the percent change get_brand_summary computes: 0 whenever the previous total is 0
brand_delta_pct(total, prev) ==
  IF prev > 0 THEN Frac((total - prev) * 100, prev) ELSE Float(0)

brand_summary_row(rws, brand, has_prev) ==
  LET base == [brand |-> brand,
               sku_count |-> brand_count(rws, brand, "sku_id"),
               total_stock |-> brand_sum(rws, brand, "total_stock"),
               total_views |-> brand_sum(rws, brand, "views"),
               total_add_to_cart |-> brand_sum(rws, brand, "add_to_cart"),
               total_purchases |-> brand_sum(rws, brand, "purchases"),
               total_revenue |-> brand_sum(rws, brand, "revenue"),
               problem_count |-> brand_count(rws, brand, "is_problem"),
               opportunity_count |-> brand_count(rws, brand, "is_opportunity"),
               overall_cvr |-> rate(brand_sum(rws, brand, "purchases"),
                                    brand_sum(rws, brand, "views"))]
       pr == brand_sum(rws, brand, "prev_revenue")
       pv == brand_sum(rws, brand, "prev_views")
       pp == brand_sum(rws, brand, "prev_purchases")
       pa == brand_sum(rws, brand, "prev_add_to_cart")
   IN  IF ~has_prev THEN base
       ELSE base @@
            [prev_total_revenue |-> pr, prev_total_views |-> pv,
             prev_total_add_to_cart |-> pa, prev_total_purchases |-> pp,
             delta_revenue |-> base.total_revenue - pr,
             delta_revenue_pct |-> brand_delta_pct(base.total_revenue, pr),
             delta_views |-> base.total_views - pv,
             delta_views_pct |-> brand_delta_pct(base.total_views, pv),
             delta_purchases |-> base.total_purchases - pp,
             delta_purchases_pct |-> brand_delta_pct(base.total_purchases, pp),
             delta_add_to_cart |-> base.total_add_to_cart - pa,
             delta_add_to_cart_pct |-> brand_delta_pct(base.total_add_to_cart, pa)]

RECURSIVE brand_summary_rows(_, _, _)
brand_summary_rows(rws, brands, has_prev) ==
  IF brands = << >> THEN << >>
  ELSE (IF brand_count(rws, Head(brands), "sku_id") > 0
        THEN <<brand_summary_row(rws, Head(brands), has_prev)>>
        ELSE << >>)
       \o brand_summary_rows(rws, Tail(brands), has_prev)

\* None without a MergedRecord set; KeyError when the set has no is_problem /
\* is_opportunity column to aggregate; else the list of per-brand records
get_brand_summary(df) ==
  IF IsNone(df) THEN None
  ELSE IF ~({"is_problem", "is_opportunity"} \subseteq df.columns) THEN KeyError
  ELSE [none |-> FALSE,
        has_prev |-> "prev_revenue" \in df.columns,
        records |-> brand_summary_rows(drop_brand(df.rows, EXCLUDED_BRAND), SortedBrands,
                                       "prev_revenue" \in df.columns)]

\* df[df[flag] == True], then df[df['brand'] == brand] `if brand and brand != 'all'`
\* (brand = "" stands for None and the empty string)
RECURSIVE filter_rows(_, _, _)
filter_rows(rws, flag, brand) ==
  IF rws = << >> THEN << >>
  ELSE (IF (flag = "" \/ Head(rws)[flag]) /\ (brand \in {"", "all"} \/ Head(rws).brand = brand)
        THEN <<Head(rws)>> ELSE << >>)
       \o filter_rows(Tail(rws), flag, brand)

RECURSIVE insert_desc(_, _, _)
insert_desc(r, srt, col) ==
  IF srt = << >> THEN <<r>>
  ELSE IF r[col] > Head(srt)[col] THEN <<r>> \o srt
       ELSE <<Head(srt)>> \o insert_desc(r, Tail(srt), col)

\* sort_values(col, ascending=False); rows with equal keys keep their order
RECURSIVE sort_desc(_, _)
sort_desc(rws, col) ==
  IF rws = << >> THEN << >>
  ELSE insert_desc(rws[Len(rws)], sort_desc(SubSeq(rws, 1, Len(rws) - 1), col), col)

\* DataFrame.head(n): the first n rows, and for negative n all rows but the last -n
head(rws, n) ==
  IF n >= 0 THEN SubSeq(rws, 1, IF n < Len(rws) THEN n ELSE Len(rws))
  ELSE SubSeq(rws, 1, IF Len(rws) + n > 0 THEN Len(rws) + n ELSE 0)

\* a faulty list: truncated without sorting
get_problem_products_unsorted(df, brand, limit) ==
  IF IsNone(df) THEN << >>
  ELSE IF "is_problem" \notin df.columns THEN KeyError
  ELSE head(filter_rows(df.rows, "is_problem", brand), limit)

\* the list get_problem_products returns; df['is_problem'] raises KeyError when
\* the set has no such column
get_problem_products(df, brand, limit) ==
  IF IsNone(df) THEN << >>
  ELSE IF "is_problem" \notin df.columns THEN KeyError
  ELSE head(sort_desc(filter_rows(df.rows, "is_problem", brand), "total_stock"), limit)

get_opportunity_products(df, brand, limit) ==
  IF IsNone(df) THEN << >>
  ELSE IF "is_opportunity" \notin df.columns THEN KeyError
  ELSE head(sort_desc(filter_rows(df.rows, "is_opportunity", brand), "views"), limit)

\* the keys of df.groupby('product_class_id'), which pandas sorts
SortedClasses == <<"P1", "P2", "P3", "P4">>

RECURSIVE class_rows(_, _)
class_rows(rws, cls) ==
  IF rws = << >> THEN << >>
  ELSE (IF Head(rws).product_class_id = cls THEN <<Head(rws)>> ELSE << >>)
       \o class_rows(Tail(rws), cls)

RECURSIVE sum_col(_, _)
sum_col(rws, col) ==
  IF rws = << >> THEN 0 ELSE Head(rws)[col] + sum_col(Tail(rws), col)

\* .agg('first') of product_url: the first value that is not null
RECURSIVE first_url(_)
first_url(rws) ==
  IF rws = << >> THEN EmptyUrl
  ELSE IF Head(rws).product_url.kind # "empty" THEN Head(rws).product_url
  ELSE first_url(Tail(rws))

\* purchases / views * 100 on float columns, then fillna(0): 0/0 is NaN and
\* becomes 0, a positive number over 0 is inf and stays
pv_cvr(purchases, views) ==
  IF views > 0 THEN Frac(purchases * 100, views)
  ELSE IF purchases = 0 THEN Float(0)
  ELSE [num |-> 1, den |-> 0]

RECURSIVE sku_details(_)
sku_details(rws) ==
  IF rws = << >> THEN << >>
  ELSE <<[views |-> Head(rws).views, add_to_cart |-> Head(rws).add_to_cart,
          purchases |-> Head(rws).purchases, total_stock |-> Head(rws).total_stock,
          cvr |-> rate(Head(rws).purchases, Head(rws).views)]>>
       \o sku_details(Tail(rws))

\* one row of the grouped frame: views is the value of the group's first row
pv_group(rws, cls) ==
  LET g == class_rows(rws, cls)
  IN  [product_class_id |-> cls,
       brand |-> g[1].brand,
       product_url |-> first_url(g),
       views |-> g[1].views,
       add_to_cart |-> sum_col(g, "add_to_cart"),
       purchases |-> sum_col(g, "purchases"),
       revenue |-> sum_col(g, "revenue"),
       total_stock |-> sum_col(g, "total_stock"),
       cvr |-> pv_cvr(sum_col(g, "purchases"), g[1].views),
       skus |-> sku_details(sort_desc(g, "purchases"))]

\* the groups kept: product classes with at least one row with views > 0
RECURSIVE pv_groups(_, _)
pv_groups(rws, classes) ==
  IF classes = << >> THEN << >>
  ELSE (IF \E i \in 1..Len(rws) :
              rws[i].product_class_id = Head(classes) /\ rws[i].views > 0
        THEN <<pv_group(rws, Head(classes))>>
        ELSE << >>)
       \o pv_groups(rws, Tail(classes))

get_pv_ranking(df, brand, limit) ==
  IF IsNone(df) THEN << >>
  ELSE IF "product_class_id" \notin df.columns THEN << >>
  ELSE head(sort_desc(pv_groups(filter_rows(df.rows, "", brand), SortedClasses), "views"),
            limit)

\* ------------------------------------------------------------------------
\* get_anomalies
\* ------------------------------------------------------------------------
\* a faulty condition: the floors on views and purchases are left out
rising_condition_no_floor(r) ==
  \/ FracGe(r.delta_views_pct, Float(50))
  \/ FracGe(r.delta_purchases_pct, Float(50))

\* ((delta_views_pct >= 50) & (views >= 50)) | ((delta_purchases_pct >= 50) & (purchases >= 3))
rising_condition(r) ==
  \/ FracGe(r.delta_views_pct, Float(50)) /\ r.views >= 50
  \/ FracGe(r.delta_purchases_pct, Float(50)) /\ r.purchases >= 3

\* a faulty condition: products without stock are not left out
warning_condition_no_stock(r) ==
  \/ FracLe(r.delta_views_pct, Float(-30)) /\ r.prev_views >= 30
  \/ FracLe(r.delta_purchases_pct, Float(-30)) /\ r.prev_purchases >= 2

\* (total_stock > 0) & (((delta_views_pct <= -30) & (prev_views >= 30))
\*                      | ((delta_purchases_pct <= -30) & (prev_purchases >= 2)))
warning_condition(r) ==
  /\ r.total_stock > 0
  /\ \/ FracLe(r.delta_views_pct, Float(-30)) /\ r.prev_views >= 30
     \/ FracLe(r.delta_purchases_pct, Float(-30)) /\ r.prev_purchases >= 2

\* delta_views_pct * 0.3 + delta_purchases_pct * 0.5 + delta_revenue_pct * 0.2
anomaly_score(r) ==
  FracAdd(FracAdd(FracScale(3, r.delta_views_pct, 10), FracScale(5, r.delta_purchases_pct, 10)),
          FracScale(2, r.delta_revenue_pct, 10))

\* filtered[rising_condition] / filtered[warning_condition], with the score column
RECURSIVE anomaly_rows(_, _, _)
anomaly_rows(rws, kind, brand) ==
  IF rws = << >> THEN << >>
  ELSE LET r == Head(rws)
       IN  (IF /\ (brand \in {"", "all"} \/ r.brand = brand)
               /\ IF kind = "rising" THEN rising_condition(r) ELSE warning_condition(r)
            THEN <<r @@ [score |-> anomaly_score(r)]>> ELSE << >>)
           \o anomaly_rows(Tail(rws), kind, brand)

RECURSIVE insert_by_score(_, _, _)
insert_by_score(r, srt, ascending) ==
  IF srt = << >> THEN <<r>>
  ELSE IF (IF ascending THEN ~FracGe(r.score, Head(srt).score)
           ELSE ~FracLe(r.score, Head(srt).score))
       THEN <<r>> \o srt
       ELSE <<Head(srt)>> \o insert_by_score(r, Tail(srt), ascending)

\* sort_values('rise_score', ascending=False) / sort_values('warn_score', ascending=True)
RECURSIVE sort_by_score(_, _)
sort_by_score(rws, ascending) ==
  IF rws = << >> THEN << >>
  ELSE insert_by_score(rws[Len(rws)],
                       sort_by_score(SubSeq(rws, 1, Len(rws) - 1), ascending), ascending)

\* the columns of `cols` the MergedRecord sets of the model carry
AnomalyCols ==
  {"sku_id", "brand", "product_url", "total_stock", "views", "prev_views", "delta_views",
   "delta_views_pct", "purchases", "prev_purchases", "delta_purchases", "delta_purchases_pct",
   "revenue", "prev_revenue", "delta_revenue", "delta_revenue_pct", "cvr"}

\* one dict per row with the columns of `cols` only (the score is not one of them)
RECURSIVE safe_to_dict(_)
safe_to_dict(rws) ==
  IF rws = << >> THEN << >>
  ELSE <<[c \in AnomalyCols |-> Head(rws)[c]]>> \o safe_to_dict(Tail(rws))

get_anomalies(df, brand, limit) ==
  IF IsNone(df) THEN [rising |-> << >>, warning |-> << >>]
  ELSE IF "delta_views_pct" \notin df.columns THEN [rising |-> << >>, warning |-> << >>]
  ELSE [rising |-> safe_to_dict(head(sort_by_score(anomaly_rows(df.rows, "rising", brand),
                                                   FALSE), limit)),
        warning |-> safe_to_dict(head(sort_by_score(anomaly_rows(df.rows, "warning", brand),
                                                    TRUE), limit))]

\* ------------------------------------------------------------------------
\* process_channel_data (the display names of channel_ja and of the sources
\* are not part of the model)
\* ------------------------------------------------------------------------
\* the keys of groupby('channel') and groupby('source'), which pandas sorts
SortedChannels == <<"Direct", "Organic Search", "Paid Social">>

SortedSources == <<"(direct)", "google", "instagram", "yahoo">>

\* round(n / d, k) with scale = 10^k: to the nearest multiple of 1/scale, a tie
\* to the even one
round(n, d, scale) ==
  LET q == (n * scale) \div d
      r == (n * scale) - q * d
  IN  Frac(IF 2 * r > d \/ (2 * r = d /\ q % 2 = 1) THEN q + 1 ELSE q, scale)

\* .agg('sum') of one column over the rows of a key
RECURSIVE key_sum(_, _, _, _)
key_sum(rws, key, val, col) ==
  IF rws = << >> THEN 0
  ELSE (IF Head(rws)[key] = val THEN Head(rws)[col] ELSE 0) + key_sum(Tail(rws), key, val, col)

key_values(rws, key) == {rws[i][key] : i \in 1..Len(rws)}

\* the rows of one channel
RECURSIVE channel_rows(_, _)
channel_rows(rws, channel) ==
  IF rws = << >> THEN << >>
  ELSE (IF Head(rws).channel = channel THEN <<Head(rws)>> ELSE << >>)
       \o channel_rows(Tail(rws), channel)

\* groupby('source').agg(sum) of the rows of one channel
RECURSIVE source_groups(_, _)
source_groups(rws, sources) ==
  IF sources = << >> THEN << >>
  ELSE (IF Head(sources) \in key_values(rws, "source")
        THEN <<[source |-> Head(sources),
                sessions |-> key_sum(rws, "source", Head(sources), "sessions"),
                purchases |-> key_sum(rws, "source", Head(sources), "purchases"),
                revenue |-> key_sum(rws, "source", Head(sources), "revenue")]>>
        ELSE << >>)
       \o source_groups(rws, Tail(sources))

\* the percent change of a channel found in the previous summary
channel_delta_pct(cur, prev) ==
  IF prev > 0 THEN round((cur - prev) * 100, prev, 10)
  ELSE IF cur > 0 THEN Float(100) ELSE Float(0)

\* one item of the result; prev_rows = << >> stands for prev_summary is None
channel_item(cur_rows, prev_rows, channel) ==
  LET sessions == key_sum(cur_rows, "channel", channel, "sessions")
      purchases == key_sum(cur_rows, "channel", channel, "purchases")
      revenue == key_sum(cur_rows, "channel", channel, "revenue")
      ps == key_sum(prev_rows, "channel", channel, "sessions")
      pp == key_sum(prev_rows, "channel", channel, "purchases")
      pr == key_sum(prev_rows, "channel", channel, "revenue")
      base == [channel |-> channel,
               sessions |-> sessions,
               users |-> key_sum(cur_rows, "channel", channel, "users"),
               purchases |-> purchases,
               revenue |-> revenue,
               cvr |-> IF sessions > 0 THEN round(purchases * 100, sessions, 100) ELSE Float(0),
               sources |-> head(sort_desc(source_groups(channel_rows(cur_rows, channel),
                                                        SortedSources), "revenue"), 5)]
  IN  IF channel \in key_values(prev_rows, "channel")
      THEN base @@
           [prev_sessions |-> ps, prev_users |-> key_sum(prev_rows, "channel", channel, "users"),
            prev_purchases |-> pp, prev_revenue |-> pr,
            delta_sessions |-> sessions - ps,
            delta_revenue |-> revenue - pr,
            delta_purchases |-> purchases - pp,
            delta_sessions_pct |-> channel_delta_pct(sessions, ps),
            delta_revenue_pct |-> channel_delta_pct(revenue, pr),
            delta_purchases_pct |-> channel_delta_pct(purchases, pp)]
      ELSE base @@
           [prev_sessions |-> 0, prev_revenue |-> 0, prev_purchases |-> 0,
            delta_sessions |-> sessions,
            delta_revenue |-> revenue,
            delta_purchases |-> purchases,
            delta_sessions_pct |-> Float(0),
            delta_revenue_pct |-> Float(0),
            delta_purchases_pct |-> Float(0)]

RECURSIVE channel_items(_, _, _)
channel_items(cur_rows, prev_rows, channels) ==
  IF channels = << >> THEN << >>
  ELSE (IF Head(channels) \in key_values(cur_rows, "channel")
        THEN <<channel_item(cur_rows, prev_rows, Head(channels))>>
        ELSE << >>)
       \o channel_items(cur_rows, prev_rows, Tail(channels))

\* results.sort(key=lambda x: x['revenue'], reverse=True) over the items in
\* the order of the sorted channel names
process_channel_data(channel_info) ==
  IF channel_info.current = << >> THEN << >>
  ELSE sort_desc(channel_items(channel_info.current,
                               IF IsNone(channel_info.previous) THEN << >>
                               ELSE channel_info.previous.rows,
                               SortedChannels),
                 "revenue")

\* filtered.sort_values('revenue', ascending=False).head(limit)
get_top_performers(df, brand, limit) ==
  IF IsNone(df) THEN << >>
  ELSE head(sort_desc(filter_rows(df.rows, "", brand), "revenue"), limit)

\* ------------------------------------------------------------------------
\* Sessions and the routes that return product records
\* (the brand names of the model are lower-case, so lower() leaves them as
\* they are)
\* ------------------------------------------------------------------------
NoSession == [logged_in |-> FALSE, is_admin |-> FALSE, accessible_brands |-> {}]

\* the session login() sets up from the result of check_password
AdminSession ==
  [logged_in |-> TRUE, is_admin |-> TRUE,
   accessible_brands |-> {BRANDS[i] : i \in 1..Len(BRANDS)}]

BrandSession(brand) == [logged_in |-> TRUE, is_admin |-> FALSE, accessible_brands |-> {brand}]

Sessions ==
  {NoSession, AdminSession} \cup {BrandSession(ModelBrands[i]) : i \in 1..Len(ModelBrands)}

can_access_brand(session, brand_name) ==
  session.is_admin \/ brand_name \in session.accessible_brands

\* a response: what came back and the product records in it
Redirect == [status |-> "redirect", products |-> << >>]

ServerError == [status |-> "error", products |-> << >>]

\* GET /brand/<brand_name>, behind login_required
brand_detail(session, brand_name, df) ==
  IF ~session.logged_in THEN Redirect
  ELSE IF IsNone(df) THEN Redirect
  ELSE IF ~can_access_brand(session, brand_name) THEN Redirect
  ELSE LET brand == IF brand_name # "all" THEN brand_name ELSE ""
       IN  IF ~({"is_problem", "is_opportunity"} \subseteq df.columns) THEN ServerError
           ELSE [status |-> "page",
                 products |-> get_problem_products(df, brand, 50)
                              \o get_opportunity_products(df, brand, 50)
                              \o get_top_performers(df, brand, 30)
                              \o get_pv_ranking(df, brand, 50)
                              \o get_anomalies(df, brand, 10).rising
                              \o get_anomalies(df, brand, 10).warning]

Categories == {"problem", "opportunity", "pv", "all"}

\* GET /api/products?brand=..&category=..&limit=..: the route has no decorator
\* and does not look at the session
api_products(brand, category, limit, df) ==
  IF IsNone(df) THEN [status |-> "json", products |-> << >>]
  ELSE LET products ==
             CASE category = "problem" -> get_problem_products(df, brand, limit)
               [] category = "opportunity" -> get_opportunity_products(df, brand, limit)
               [] category = "pv" -> get_pv_ranking(df, brand, limit)
               [] OTHER -> get_top_performers(df, brand, limit)
       IN  IF products = KeyError THEN ServerError
           ELSE [status |-> "json", products |-> products]

\* the arguments of the queries: brand_detail passes the brand of the URL,
\* api_products passes request.args 'brand' and int(request.args 'limit')
BrandArgs == {"", "all", "rady", "cherimi"}

LimitArgs == {-1, 0, 1, 2}

\* ------------------------------------------------------------------------
\* Status reporting.  upload and fetch_ga4 run
\*     merge_and_analyze(); flash('データの突合・分析が完了しました！', 'success')
\* so the completion message is flashed whenever the call returns, whatever it
\* returns; it is not flashed when the call raises or is not made.
\* ------------------------------------------------------------------------
flash_completed(step) ==
  /\ step.op \in {"upload", "fetch_ga4"}
  /\ step.reconciled \in {"ok", "none"}

\* ------------------------------------------------------------------------
\* Specification: requests are handled one at a time
\* ------------------------------------------------------------------------
BrandSet == {ModelBrands[i] : i \in 1..Len(ModelBrands)}

Next ==
  \/ \E r2 \in {"disabled", "master", "master_ga"} : InitFromR2(r2)
  \/ \E pmFile \in {"none", "bad", "file2", "nosku"},
        gaFiles \in [BrandSet -> {"none", "bad", "ok"}] : Upload(pmFile, gaFiles)
  \/ \E r2File \in {"none", "file1", "noexpected"} : SyncR2(r2File)
  \/ \E p \in PeriodSet, w \in Worlds : FetchGa4(p, w)
  \/ \E p \in PeriodSet : SwitchPeriod(p)
  \/ \E w \in Worlds \ {"down"}, ok \in BOOLEAN : SchedFetch(w, ok)
  \/ SchedSwitch
  \/ SchedMerge

Spec == Init /\ [][Next]_vars

\* ------------------------------------------------------------------------
\* Vocabulary of the properties
\* ------------------------------------------------------------------------
Rows(df) == {df.rows[i] : i \in 1..Len(df.rows)}

\* the handler that ran last called merge_and_analyze and got a frame back, so
\* merged_data is its result for the product_master, ga_sales and
\* ga_sales_previous of this state
Reconciled ==
  /\ last.op \in {"init_from_r2", "upload", "sync_r2", "fetch_ga4"}
  /\ last.reconciled = "ok"

\* the positions <<b, j>> of the fact rows of a dict: row j of the b-th entry
FactPositions(d) ==
  {<<b, j>> \in (1..Len(d)) \X (1..6) : j <= Len(d[b].v.data.rows)}

FactAt(d, pos) == d[pos[1]].v.data.rows[pos[2]]

FactSkus(d) == {FactAt(d, pos).sku_id : pos \in FactPositions(d)}

MasterSkus == {r.sku_id : r \in Rows(product_master)}

SwitchOps == {"switch", "sched_switch"}

\* ------------------------------------------------------------------------
\* C1  Join completeness: after merge_and_analyze returned a frame, it holds
\* exactly one record for every product-master sku_id of a brand other than
\* the excluded one, a product without any fact has views, add_to_cart,
\* purchases and revenue 0, and no record has a sku_id that is not in the
\* product master.
\* ------------------------------------------------------------------------
C1_JoinCompleteness ==
  Reconciled =>
    /\ \A i \in 1..Len(product_master.rows) :
         product_master.rows[i].brand # EXCLUDED_BRAND =>
           Cardinality({j \in 1..Len(merged_data.rows) :
                          merged_data.rows[j].sku_id = product_master.rows[i].sku_id}) = 1
    /\ \A r \in Rows(merged_data) :
         /\ r.sku_id \in MasterSkus
         /\ r.sku_id \notin FactSkus(ga_sales) =>
              r.views = 0 /\ r.add_to_cart = 0 /\ r.purchases = 0 /\ r.revenue = 0

\* a reconciliation over a master with a product without facts (A2), with the
\* facts naming a sku_id the master does not have (X9)
C1_Witness ==
  /\ Reconciled
  /\ \E r \in Rows(merged_data) : r.sku_id = "A2" /\ r.views = 0
  /\ "A2" \notin FactSkus(ga_sales)
  /\ "X9" \in FactSkus(ga_sales) \ MasterSkus

\* ------------------------------------------------------------------------
\* C2  No record of the excluded brand is in the active MergedRecord set,
\* whatever operations ran.
\* ------------------------------------------------------------------------
C2_NoExcludedBrandActive ==
  ~IsNone(merged_data) => \A r \in Rows(merged_data) : r.brand # EXCLUDED_BRAND

\* ------------------------------------------------------------------------
\* C3  Period isolation: a step that stores facts for period type p (an
\* iteration of the scheduled fetch loop, fetch-ga4 with period_type = p) or
\* reconciles p (merge_and_analyze_for_period(p)) leaves the stored entry of
\* every other period type as it was.
\* ------------------------------------------------------------------------
C3_PeriodIsolation ==
  [][last'.op \in {"sched_fetch", "sched_merge", "fetch_ga4"} =>
       \A q \in PeriodSet \ {last'.period} : periods_data'[q] = periods_data[q]]_vars

\* the weekly entry was reconciled while the 3-day entry, with facts stored, has
\* no MergedRecord set yet and yesterday's has one
C3_Witness ==
  /\ last.op = "sched_merge" /\ last.period = "weekly" /\ last.reconciled = "ok"
  /\ ~IsNone(periods_data["weekly"].merged_data)
  /\ ~IsNone(periods_data["yesterday"].merged_data)
  /\ periods_data["3days"].ga_sales # EmptyDict
  /\ IsNone(periods_data["3days"].merged_data)
  /\ periods_data["weekly"].ga_sales # periods_data["3days"].ga_sales

\* ------------------------------------------------------------------------
\* C4  Switching the active period is a pure copy: a call of
\* switch_period_data(p) changes nothing in the period store, and afterwards
\* the active facts, previous facts, MergedRecord sets and current_period are
\* exactly what is stored for p.
\* ------------------------------------------------------------------------
C4_SwitchIsPureCopy ==
  [][last'.op \in SwitchOps =>
       /\ periods_data' = periods_data
       /\ ga_sales' = periods_data[last'.period].ga_sales
       /\ ga_sales_previous' = periods_data[last'.period].ga_sales_previous
       /\ merged_data' = periods_data[last'.period].merged_data
       /\ merged_data_previous' = periods_data[last'.period].merged_data_previous
       /\ current_period' = last'.period]_vars

\* the active slot was switched to the 3-day data, reconciled and distinct from
\* the weekly data
C4_Witness ==
  /\ last.op = "switch" /\ last.period = "3days"
  /\ current_period = "3days"
  /\ ~IsNone(merged_data)
  /\ ~IsNone(periods_data["weekly"].merged_data)
  /\ merged_data # periods_data["weekly"].merged_data

\* ------------------------------------------------------------------------
\* C5  A switch to a period type without facts fails and leaves the active
\* slot unchanged, for the switch-period route and for the calls of
\* switch_period_data in scheduled_update alike.
\* ------------------------------------------------------------------------
C5_SwitchWithoutFactsKeepsActive ==
  [][(/\ last'.op \in SwitchOps \cup {"switch_refused"}
      /\ periods_data[last'.period].ga_sales = EmptyDict)
       => active_vars' = active_vars]_vars

\* ------------------------------------------------------------------------
\* C6  A reconciliation run for the displayed period type stores its result
\* as that period type's own MergedRecord set (so that a later switch back to
\* it shows that result).
\* ------------------------------------------------------------------------
C6_ResultStoredForPeriod ==
  Reconciled => periods_data[current_period].merged_data = merged_data

\* ------------------------------------------------------------------------
\* C7  Whenever a request has been handled and the active MergedRecord set is
\* present, it carries cvr, cart_rate, stock_efficiency, is_problem and
\* is_opportunity.
\* ------------------------------------------------------------------------
C7_ActiveHasAnalysisColumns ==
  (pc = Idle /\ ~IsNone(merged_data)) => AnalysisColumns \subseteq merged_data.columns

\* ------------------------------------------------------------------------
\* C8  With previous-slot facts, for every record and each metric X of views,
\* add_to_cart, purchases, revenue: prev_X is the sum of the previous-slot
\* facts of the sku_id (0 when there is none), delta_X = X - prev_X, and
\* delta_X_pct is the percent change if prev_X > 0, 100 if prev_X = 0 and
\* X > 0, and 0 if both are 0.
\* ------------------------------------------------------------------------
DeltaMetrics == {"views", "add_to_cart", "purchases", "revenue"}

PrevCol(x) ==
  CASE x = "views" -> "prev_views" [] x = "add_to_cart" -> "prev_add_to_cart"
    [] x = "purchases" -> "prev_purchases" [] x = "revenue" -> "prev_revenue"

DeltaCol(x) ==
  CASE x = "views" -> "delta_views" [] x = "add_to_cart" -> "delta_add_to_cart"
    [] x = "purchases" -> "delta_purchases" [] x = "revenue" -> "delta_revenue"

PctCol(x) ==
  CASE x = "views" -> "delta_views_pct" [] x = "add_to_cart" -> "delta_add_to_cart_pct"
    [] x = "purchases" -> "delta_purchases_pct" [] x = "revenue" -> "delta_revenue_pct"

HasDeltas(df) == ~IsNone(df) /\ "delta_views_pct" \in df.columns

\* the total of column x over the facts of a sku_id, summed position by position
RECURSIVE SumOver(_, _, _)
SumOver(d, positions, x) ==
  IF positions = {} THEN 0
  ELSE LET pos == CHOOSE q \in positions : TRUE
       IN  FactAt(d, pos)[x] + SumOver(d, positions \ {pos}, x)

TotalOf(d, sku, x) ==
  SumOver(d, {pos \in FactPositions(d) : FactAt(d, pos).sku_id = sku}, x)

C8_DeltaRule ==
  HasDeltas(merged_data) =>
    \A r \in Rows(merged_data), x \in DeltaMetrics :
      LET cur == r[x]
          prev == r[PrevCol(x)]
          pct == r[PctCol(x)]
      IN  /\ Reconciled => prev = TotalOf(ga_sales_previous, r.sku_id, x)
          /\ r[DeltaCol(x)] = cur - prev
          /\ prev > 0 => pct.den > 0 /\ pct.num * prev = (cur - prev) * 100 * pct.den
          /\ (prev = 0 /\ cur > 0) => pct = Float(100)
          /\ (prev = 0 /\ cur = 0) => pct = Float(0)

\* a reconciliation where revenue went from 200 to 300 (50 percent), a metric
\* rose from 0, and a product has neither current nor previous facts
C8_Witness ==
  /\ Reconciled /\ HasDeltas(merged_data)
  /\ \E r \in Rows(merged_data) :
       /\ r.prev_revenue = 200 /\ r.revenue = 300 /\ r.delta_revenue_pct = Float(50)
       /\ r.prev_add_to_cart = 0 /\ r.add_to_cart > 0
  /\ \E r \in Rows(merged_data) :
       /\ r.sku_id \notin FactSkus(ga_sales_previous)
       /\ r.views = 0 /\ r.prev_views = 0

\* ------------------------------------------------------------------------
\* C9  Zero-guard: in every frame merge_and_analyze built, a record with
\* views = 0 has cvr = 0 and cart_rate = 0, a record with total_stock = 0 has
\* stock_efficiency = 0, and no rate is the result of a division by zero.
\* ------------------------------------------------------------------------
HasRates(df) == ~IsNone(df) /\ "cvr" \in df.columns

C9_ZeroGuard ==
  HasRates(merged_data) =>
    \A r \in Rows(merged_data) :
      /\ r.views = 0 => r.cvr = Float(0) /\ r.cart_rate = Float(0)
      /\ r.total_stock = 0 => r.stock_efficiency = Float(0)
      /\ r.cvr.den > 0 /\ r.cart_rate.den > 0 /\ r.stock_efficiency.den > 0
      /\ HasDeltas(merged_data) => r.prev_cvr.den > 0 /\ r.delta_cvr.den > 0

\* a reconciled frame with a record without views and a record without stock
\* that has revenue
C9_Witness ==
  /\ Reconciled
  /\ \E r \in Rows(merged_data) : r.views = 0 /\ r.total_stock > 0
  /\ \E r \in Rows(merged_data) : r.total_stock = 0 /\ r.revenue > 0 /\ r.views > 0

\* ------------------------------------------------------------------------
\* C10  Duplicate-SKU aggregation: a sku_id that occurs in the current-slot
\* facts of several brands gets one record whose views, add_to_cart,
\* purchases and revenue are the sums over all occurrences and whose
\* item_name is the first non-null one in the insertion order of the brands.
\* ------------------------------------------------------------------------
\* pos comes before other in the concatenation of the batches
Before(pos, other) ==
  pos[1] < other[1] \/ (pos[1] = other[1] /\ pos[2] <= other[2])

FirstNameOf(d, sku) ==
  LET named == {pos \in FactPositions(d) :
                  FactAt(d, pos).sku_id = sku /\ FactAt(d, pos).item_name # NaN}
  IN  IF named = {} THEN NaN
      ELSE FactAt(d, CHOOSE pos \in named : \A other \in named : Before(pos, other)).item_name

C10_DuplicateSkuAggregation ==
  Reconciled =>
    \A r \in Rows(merged_data) :
      r.sku_id \in FactSkus(ga_sales) =>
        /\ \A x \in DeltaMetrics : r[x] = TotalOf(ga_sales, r.sku_id, x)
        /\ r.item_name = FirstNameOf(ga_sales, r.sku_id)

\* C1 has 10 views (no item name) in rady's batch and 15 in cherimi's, and A1 is
\* named in both batches, cherimi's coming first
C10_Witness ==
  /\ Reconciled
  /\ Len(ga_sales) = 2 /\ ga_sales[1].k = "cherimi" /\ ga_sales[2].k = "rady"
  /\ \E r \in Rows(merged_data) :
       r.sku_id = "C1" /\ r.views = 25 /\ r.item_name = "Bag"
  /\ \E r \in Rows(merged_data) :
       r.sku_id = "A1" /\ r.item_name = "Dress-ch"

\* ------------------------------------------------------------------------
\* C11  Idempotence of reconcile: a handler that runs merge_and_analyze right
\* after a run of it, with the product master and the facts unchanged, stores
\* the same MergedRecord set again (same records, values, flags and order);
\* merge_and_analyze_for_period(p) leaves the product master and p's facts as
\* they were, and a second call right after it would change nothing.
\* ------------------------------------------------------------------------
MergeOps == {"init_from_r2", "upload", "sync_r2", "fetch_ga4"}

JoinedFacts(x) ==
  [i \in 1..Len(product_master.rows) |-> TotalOf(ga_sales, product_master.rows[i].sku_id, x)]

\* the same column over the rows of the brands that stay
RECURSIVE KeptFacts(_, _)
KeptFacts(rws, x) ==
  IF rws = << >> THEN << >>
  ELSE (IF Head(rws).brand = EXCLUDED_BRAND THEN << >>
        ELSE <<TotalOf(ga_sales, Head(rws).sku_id, x)>>)
       \o KeptFacts(Tail(rws), x)

C12_FlagsUseFullTableThresholds ==
  Reconciled =>
    \A r \in Rows(merged_data) :
      /\ r.brand # EXCLUDED_BRAND
      /\ r.is_problem =
           is_problem(r, quantile(column(product_master.rows, "total_stock"), 7),
                         quantile(JoinedFacts("revenue"), 3))
      /\ r.is_opportunity = is_opportunity(r, quantile(JoinedFacts("views"), 7))

\* a record is not flagged as a problem although it would be against the
\* thresholds of the remaining brands alone: the excluded brand's stock raised
\* the stock threshold above it
C12_Witness ==
  /\ Reconciled
  /\ \E i \in 1..Len(product_master.rows) : product_master.rows[i].brand = EXCLUDED_BRAND
  /\ \E r \in Rows(merged_data) :
       /\ ~r.is_problem
       /\ is_problem(r,
            quantile(column(drop_brand(product_master.rows, EXCLUDED_BRAND), "total_stock"), 7),
            quantile(KeptFacts(product_master.rows, "revenue"), 3))

\* ------------------------------------------------------------------------
\* C13  Reconcile precondition: when no product master is loaded, or the
\* current-slot facts hold no row for any brand (no brand entry, or only
\* batches of zero rows), a step that would reconcile gets no result and
\* every stored MergedRecord set, active and per period type, stays as it was.
\* ------------------------------------------------------------------------
NoFacts(d) == FactPositions(d) = {}

C13_NoResultKeepsMergedSets ==
  [][(/\ last'.op \in MergeOps \cup {"sched_merge"}
      /\ \/ IsNone(product_master')
         \/ NoFacts(IF last'.op = "sched_merge"
                    THEN periods_data'[last'.period].ga_sales
                    ELSE ga_sales'))
       => /\ last'.reconciled \in {"none", "not_run"}
          /\ merged_data' = merged_data
          /\ merged_data_previous' = merged_data_previous
          /\ \A p \in PeriodSet :
               /\ periods_data'[p].merged_data = periods_data[p].merged_data
               /\ periods_data'[p].merged_data_previous =
                    periods_data[p].merged_data_previous]_vars

\* fetch-ga4 called merge_and_analyze over batches of zero rows: it returned
\* None and the MergedRecord set of the earlier reconciliation is still there
C13_Witness ==
  /\ last.op = "fetch_ga4" /\ last.reconciled = "none"
  /\ ~IsNone(product_master)
  /\ ga_sales # EmptyDict /\ NoFacts(ga_sales)
  /\ ~IsNone(merged_data)

\* ------------------------------------------------------------------------
\* C14  A batch that fails normalization changes nothing in the store: an
\* upload whose product master cannot be parsed or has no SKU column leaves the
\* stored product master as it was, a brand's export that cannot be parsed
\* leaves that brand's facts as they were, and an upload in which no batch is
\* valid leaves all facts and the reconciled data as they were.
\* ------------------------------------------------------------------------
FailedMasters == {"bad", "nosku"}

Entry(d, brand) == IF brand \in DictKeys(d) THEN DictGet(d, brand) ELSE None

C14_FailedBatchChangesNothing ==
  [][\A pmFile \in {"none", "bad", "file2", "nosku"},
        gaFiles \in [BrandSet -> {"none", "bad", "ok"}] :
       (last'.op = "upload" /\ Upload(pmFile, gaFiles)) =>
         /\ pmFile \in FailedMasters => product_master' = product_master
         /\ \A brand \in BrandSet :
              gaFiles[brand] # "ok" => Entry(ga_sales', brand) = Entry(ga_sales, brand)
         /\ (pmFile # "file2" /\ \A brand \in BrandSet : gaFiles[brand] # "ok") =>
              /\ ga_sales' = ga_sales
              /\ merged_data' = merged_data
              /\ periods_data' = periods_data]_vars

\* ------------------------------------------------------------------------
\* C15  Last good state: no step replaces active facts by no facts, or a
\* present active MergedRecord set by an absent one.
\* ------------------------------------------------------------------------
C15_LastGoodStateKept ==
  [][/\ ga_sales # EmptyDict => ga_sales' # EmptyDict
     /\ ~IsNone(merged_data) => ~IsNone(merged_data')]_vars

\* ------------------------------------------------------------------------
\* Concurrent requests.  The code takes no lock and Flask's server handles
\* each request in a thread of its own, so a reader can run between any two
\* statements of a writer.  SpecConcurrent shows the states such a reader can
\* see: /switch-period/<p> is taken one assignment of switch_period_data at a
\* time, scheduled_update one call at a time.  Startup loads at most the
\* product master and the only writers are the switch and the scheduled
\* update, so that between requests the active facts are those of the period
\* type current_period names and the active MergedRecord set was reconciled
\* from them.
\* ------------------------------------------------------------------------
\* the data_store keys switch_period_data assigns, in the order of its statements
SlotKeys ==
  <<"ga_sales", "ga_sales_previous", "channel_data", "merged_data",
    "merged_data_previous", "current_period">>

\* the route's check before it calls switch_period_data
SwitchBegin(p) ==
  /\ pc = Idle
  /\ ops < MaxOps
  /\ ops' = ops + 1
  /\ IF periods_data[p].ga_sales = EmptyDict
     THEN /\ pc' = Idle
          /\ last' = Step("switch_refused", p, "not_run")
     ELSE /\ pc' = At("copy", 1, p)
          /\ last' = Step("switch_begin", p, "not_run")
  /\ UNCHANGED <<product_master, active_vars, periods_data, results_summary>>

\* one assignment data_store[key] = period_data[key] of switch_period_data
SwitchAssign ==
  /\ pc.at = "copy"
  /\ LET slot == switch_period_data(periods_data[pc.w], pc.w)
         key == SlotKeys[pc.i]
     IN  /\ ga_sales' = IF key = "ga_sales" THEN slot.ga_sales ELSE ga_sales
         /\ ga_sales_previous' =
              IF key = "ga_sales_previous" THEN slot.ga_sales_previous ELSE ga_sales_previous
         /\ channel_data' = IF key = "channel_data" THEN slot.channel_data ELSE channel_data
         /\ merged_data' = IF key = "merged_data" THEN slot.merged_data ELSE merged_data
         /\ merged_data_previous' =
              IF key = "merged_data_previous" THEN slot.merged_data_previous
              ELSE merged_data_previous
         /\ current_period' =
              IF key = "current_period" THEN slot.current_period ELSE current_period
  /\ pc' = IF pc.i < Len(SlotKeys) THEN At("copy", pc.i + 1, pc.w) ELSE Idle
  /\ last' = Step("switch_assign", pc.w, "not_run")
  /\ UNCHANGED <<product_master, periods_data, ops, results_summary>>

NextConcurrent ==
  \/ \E r2 \in {"disabled", "master"} : InitFromR2(r2)
  \/ \E p \in PeriodSet : SwitchBegin(p)
  \/ SwitchAssign
  \/ \E w \in Worlds \ {"down"}, ok \in BOOLEAN : SchedFetch(w, ok)
  \/ SchedSwitch
  \/ SchedMerge

SpecConcurrent == Init /\ [][NextConcurrent]_vars

\* every active fact batch covers the window of the period type current_period names
ActiveFactsOfCurrentPeriod ==
  \A b \in 1..Len(ga_sales) : ga_sales[b].v.period.days = Days(current_period)

\* the active MergedRecord set is the reconciliation of the active facts: with
\* a product master and fact rows it is present, and the metrics of each record
\* are the totals of the active facts of its sku_id
ActiveSetReflectsFacts ==
  ~NoFacts(ga_sales) =>
    /\ ~IsNone(product_master) => ~IsNone(merged_data)
    /\ ~IsNone(merged_data) =>
         \A r \in Rows(merged_data), x \in DeltaMetrics :
           r[x] = TotalOf(ga_sales, r.sku_id, x)

ActiveSlotCoherent == ActiveFactsOfCurrentPeriod /\ ActiveSetReflectsFacts

\* ------------------------------------------------------------------------
\* C16  Writes to the period store and the MergedRecord sets are serialized:
\* whenever a reader looks, also while a switch or a scheduled update is under
\* way, the active facts and the active MergedRecord set are those of the
\* period type current_period names.
\* ------------------------------------------------------------------------
C16_ReaderSeesCoherentActiveSlot == ActiveSlotCoherent

\* between requests the active slot is coherent under SpecConcurrent
BetweenRequestsCoherent == pc \in {Boot, Idle} => ActiveSlotCoherent

\* ------------------------------------------------------------------------
\* C17  The reported status matches the outcome: upload and fetch-ga4 report
\* 'reconciliation completed' only when merge_and_analyze produced a
\* MergedRecord set, not when it returned no result.
\* ------------------------------------------------------------------------
C17_CompletionReportedOnlyWithResult ==
  flash_completed(last) => (last.reconciled = "ok" /\ ~IsNone(merged_data))

\* ------------------------------------------------------------------------
\* C18  Brand summary deltas: for every brand and each of revenue, views,
\* purchases, add_to_cart the delta is total minus previous total, and the
\* delta percent is the percent change if the previous total > 0, exactly 100
\* if the previous total is 0 and the total > 0, and 0 if both are 0.
\* ------------------------------------------------------------------------
BrandDeltaOk(total, prev, delta, pct) ==
  /\ delta = total - prev
  /\ prev > 0 => pct.den > 0 /\ pct.num * prev = (total - prev) * 100 * pct.den
  /\ (prev = 0 /\ total > 0) => pct = Float(100)
  /\ (prev = 0 /\ total = 0) => pct = Float(0)

C18_BrandDeltaRule ==
  (~IsNone(get_brand_summary(merged_data)) /\ get_brand_summary(merged_data).has_prev) =>
    \A i \in 1..Len(get_brand_summary(merged_data).records) :
      LET b == get_brand_summary(merged_data).records[i]
      IN  /\ BrandDeltaOk(b.total_revenue, b.prev_total_revenue,
                          b.delta_revenue, b.delta_revenue_pct)
          /\ BrandDeltaOk(b.total_views, b.prev_total_views,
                          b.delta_views, b.delta_views_pct)
          /\ BrandDeltaOk(b.total_purchases, b.prev_total_purchases,
                          b.delta_purchases, b.delta_purchases_pct)
          /\ BrandDeltaOk(b.total_add_to_cart, b.prev_total_add_to_cart,
                          b.delta_add_to_cart, b.delta_add_to_cart_pct)

\* ------------------------------------------------------------------------
\* C19  Problem and opportunity lists: get_problem_products(brand, limit)
\* returns at most limit records, each with is_problem true and, for a brand
\* other than 'all', of that brand, in non-increasing total_stock order, and no
\* flagged matching record left out has a larger total_stock than a returned
\* one; get_opportunity_products likewise with is_opportunity and views.
\* ------------------------------------------------------------------------
HasFlags(df) == ~IsNone(df) /\ {"is_problem", "is_opportunity"} \subseteq df.columns

ListOk(result, df, flag, col, brand, limit) ==
  /\ Len(result) <= limit
  /\ \A i \in 1..Len(result) :
       /\ result[i] \in Rows(df)
       /\ result[i][flag]
       /\ brand \notin {"", "all"} => result[i].brand = brand
       /\ i < Len(result) => result[i][col] >= result[i + 1][col]
  /\ \A r \in Rows(df) :
       (r[flag] /\ (brand \in {"", "all"} \/ r.brand = brand)
          /\ \A i \in 1..Len(result) : result[i] # r)
         => \A i \in 1..Len(result) : r[col] <= result[i][col]

C19_ProblemAndOpportunityLists ==
  HasFlags(merged_data) =>
    \A brand \in BrandArgs, limit \in {n \in LimitArgs : n >= 0} :
      /\ ListOk(get_problem_products(merged_data, brand, limit), merged_data,
                "is_problem", "total_stock", brand, limit)
      /\ ListOk(get_opportunity_products(merged_data, brand, limit), merged_data,
                "is_opportunity", "views", brand, limit)

\* two problem records of one brand with different total_stock, so that a
\* limit of 1 cuts the list after the larger one, and the brand filter of
\* another brand leaves neither
C19_Witness ==
  /\ HasFlags(merged_data)
  /\ Len(get_problem_products(merged_data, "all", 2)) = 2
  /\ get_problem_products(merged_data, "all", 2)[1].total_stock
       > get_problem_products(merged_data, "all", 2)[2].total_stock
  /\ get_problem_products(merged_data, "rady", 1)
       = <<get_problem_products(merged_data, "all", 2)[1]>>
  /\ get_problem_products(merged_data, "cherimi", 2) = << >>
  /\ Len(get_opportunity_products(merged_data, "", 2)) >= 1

\* ------------------------------------------------------------------------
\* C20  PV ranking keeps only groups with positive views: every row that
\* get_pv_ranking returns has views > 0, whatever the active MergedRecord set.
\* ------------------------------------------------------------------------
C20_PvRankingRowsHaveViews ==
  \A brand \in BrandArgs, limit \in {n \in LimitArgs : n >= 0} :
    \A i \in 1..Len(get_pv_ranking(merged_data, brand, limit)) :
      get_pv_ranking(merged_data, brand, limit)[i].views > 0

\* ------------------------------------------------------------------------
\* C21  PV ranking zero-guard: the cvr of every row get_pv_ranking returns is
\* a finite number, summed purchases / views * 100 when the row's views > 0
\* and 0 when they are 0; no result of a division by zero reaches the output.
\* ------------------------------------------------------------------------
C21_PvRankingCvrGuarded ==
  \A brand \in BrandArgs, limit \in {n \in LimitArgs : n >= 0} :
    \A i \in 1..Len(get_pv_ranking(merged_data, brand, limit)) :
      LET g == get_pv_ranking(merged_data, brand, limit)[i]
      IN  /\ g.cvr.den > 0
          /\ g.views > 0 => g.cvr.num * g.views = g.purchases * 100 * g.cvr.den
          /\ g.views = 0 => g.cvr = Float(0)

\* ------------------------------------------------------------------------
\* C22  Rising anomalies: with delta fields, every record of the 'rising' list
\* of get_anomalies satisfies (delta_views_pct >= 50 and views >= 50) or
\* (delta_purchases_pct >= 50 and purchases >= 3) and the brand filter, the
\* list has at most limit entries and is ordered by
\* 0.3 * delta_views_pct + 0.5 * delta_purchases_pct + 0.2 * delta_revenue_pct
\* descending; without delta fields both lists are empty.
\* ------------------------------------------------------------------------
\* ten times the weighted score, cross-multiplied to a common denominator
Weighted(r) ==
  3 * r.delta_views_pct.num * r.delta_purchases_pct.den * r.delta_revenue_pct.den
  + 5 * r.delta_purchases_pct.num * r.delta_views_pct.den * r.delta_revenue_pct.den
  + 2 * r.delta_revenue_pct.num * r.delta_views_pct.den * r.delta_purchases_pct.den

Denominator(r) == r.delta_views_pct.den * r.delta_purchases_pct.den * r.delta_revenue_pct.den

\* the weighted score of a is at least that of b
ScoreGe(a, b) == Weighted(a) * Denominator(b) >= Weighted(b) * Denominator(a)

Pct(r, col, n) == r[col].den > 0 /\ r[col].num >= n * r[col].den

PctAtMost(r, col, n) == r[col].den > 0 /\ r[col].num <= n * r[col].den

IsRising(r) ==
  \/ Pct(r, "delta_views_pct", 50) /\ r.views >= 50
  \/ Pct(r, "delta_purchases_pct", 50) /\ r.purchases >= 3

BrandMatches(r, brand) == brand \in {"", "all"} \/ r.brand = brand

\* the record of the active MergedRecord set a returned dict was made from
FromActiveSet(item) ==
  \E r \in Rows(merged_data) : \A c \in AnomalyCols : item[c] = r[c]

C22_RisingAnomalies ==
  \A brand \in BrandArgs, limit \in {n \in LimitArgs : n >= 0} :
    LET rising == get_anomalies(merged_data, brand, limit).rising
    IN  IF HasDeltas(merged_data)
        THEN /\ Len(rising) <= limit
             /\ \A i \in 1..Len(rising) :
                  /\ FromActiveSet(rising[i])
                  /\ IsRising(rising[i])
                  /\ BrandMatches(rising[i], brand)
                  /\ i < Len(rising) => ScoreGe(rising[i], rising[i + 1])
        ELSE get_anomalies(merged_data, brand, limit) = [rising |-> << >>, warning |-> << >>]

\* two rising records with different scores, the one with the smaller score
\* coming first in the MergedRecord set, so that the order and a limit of 1
\* show; the brand filter keeps one of the two
C22_Witness ==
  /\ HasDeltas(merged_data)
  /\ Len(get_anomalies(merged_data, "all", 2).rising) = 2
  /\ ~ScoreGe(get_anomalies(merged_data, "all", 2).rising[2],
              get_anomalies(merged_data, "all", 2).rising[1])
  /\ \E i, j \in 1..Len(merged_data.rows) :
       /\ i < j
       /\ merged_data.rows[i].sku_id = get_anomalies(merged_data, "all", 2).rising[2].sku_id
       /\ merged_data.rows[j].sku_id = get_anomalies(merged_data, "all", 2).rising[1].sku_id
  /\ get_anomalies(merged_data, "all", 1).rising
       = <<get_anomalies(merged_data, "all", 2).rising[1]>>
  /\ Len(get_anomalies(merged_data, "rady", 2).rising) = 1

\* ------------------------------------------------------------------------
\* C23  Warning anomalies: every record of the 'warning' list of
\* get_anomalies has total_stock > 0 and satisfies (delta_views_pct <= -30 and
\* prev_views >= 30) or (delta_purchases_pct <= -30 and prev_purchases >= 2);
\* the list is ordered by the weighted score ascending and cut to limit; a
\* record with total_stock = 0 is never in it.
\* ------------------------------------------------------------------------
IsFalling(r) ==
  \/ PctAtMost(r, "delta_views_pct", -30) /\ r.prev_views >= 30
  \/ PctAtMost(r, "delta_purchases_pct", -30) /\ r.prev_purchases >= 2

C23_WarningAnomalies ==
  HasDeltas(merged_data) =>
    \A brand \in BrandArgs, limit \in {n \in LimitArgs : n >= 0} :
      LET warning == get_anomalies(merged_data, brand, limit).warning
      IN  /\ Len(warning) <= limit
          /\ \A i \in 1..Len(warning) :
               /\ FromActiveSet(warning[i])
               /\ warning[i].total_stock > 0
               /\ IsFalling(warning[i])
               /\ BrandMatches(warning[i], brand)
               /\ i < Len(warning) => ScoreGe(warning[i + 1], warning[i])
          /\ \A r \in Rows(merged_data) :
               r.total_stock = 0 => \A i \in 1..Len(warning) : warning[i].sku_id # r.sku_id

\* two records with stock fell, by different scores, and a limit of 1 keeps the
\* one that fell more; a third record fell as much but has no stock and is in
\* no list
C23_Witness ==
  /\ HasDeltas(merged_data)
  /\ Len(get_anomalies(merged_data, "all", 2).warning) = 2
  /\ ~ScoreGe(get_anomalies(merged_data, "all", 2).warning[1],
              get_anomalies(merged_data, "all", 2).warning[2])
  /\ get_anomalies(merged_data, "all", 1).warning
       = <<get_anomalies(merged_data, "all", 2).warning[1]>>
  /\ \E r \in Rows(merged_data) :
       /\ r.total_stock = 0
       /\ IsFalling(r)
       /\ \A i \in 1..2 : get_anomalies(merged_data, "all", 2).warning[i].sku_id # r.sku_id

\* ------------------------------------------------------------------------
\* C24  Channel breakdown deltas: with a previous-period channel table, every
\* channel's delta_sessions_pct, delta_revenue_pct and delta_purchases_pct is
\* the percent change if the previous value > 0, 100 if the previous value is
\* 0 and the current one > 0, else 0, a channel without a row in the previous
\* table having previous value 0; channels come in non-increasing revenue order.
\* ------------------------------------------------------------------------
PreviousSupplied(info) == ~IsNone(info.previous) /\ info.previous.rows # << >>

\* the total of a column over the rows of a channel in a table
RECURSIVE ChannelTotal(_, _, _)
ChannelTotal(rws, channel, col) ==
  IF rws = << >> THEN 0
  ELSE (IF Head(rws).channel = channel THEN Head(rws)[col] ELSE 0)
       + ChannelTotal(Tail(rws), channel, col)

\* pct is the percent change from prev to cur, to the one decimal the code keeps
ChannelPctOk(cur, prev, pct) ==
  /\ pct.den > 0
  /\ prev > 0 =>
       20 * Abs(pct.num * prev - (cur - prev) * 100 * pct.den) <= prev * pct.den
  /\ (prev = 0 /\ cur > 0) => pct = Float(100)
  /\ (prev = 0 /\ cur = 0) => pct = Float(0)

ChannelDeltasOk(info) ==
  LET items == process_channel_data(info)
  IN  \A i \in 1..Len(items) :
        /\ \A col \in {"sessions", "revenue", "purchases"} :
             items[i][col] = ChannelTotal(info.current, items[i].channel, col)
        /\ ChannelPctOk(items[i].sessions,
                        ChannelTotal(info.previous.rows, items[i].channel, "sessions"),
                        items[i].delta_sessions_pct)
        /\ ChannelPctOk(items[i].revenue,
                        ChannelTotal(info.previous.rows, items[i].channel, "revenue"),
                        items[i].delta_revenue_pct)
        /\ ChannelPctOk(items[i].purchases,
                        ChannelTotal(info.previous.rows, items[i].channel, "purchases"),
                        items[i].delta_purchases_pct)
        /\ i < Len(items) => items[i].revenue >= items[i + 1].revenue

C24_ChannelDeltaRule ==
  \A b \in 1..Len(channel_data) :
    PreviousSupplied(channel_data[b].v) => ChannelDeltasOk(channel_data[b].v)

\* ------------------------------------------------------------------------
\* C25  Stock invariant: whatever the product-master input (negative, empty
\* or unparseable stock cells included), every ProductRecord and every
\* MergedRecord has total_stock >= 0, and total_stock is the sum of web_stock,
\* adjust_stock and expected_stock when the three columns are present and 0
\* when one of them is absent.
\* ------------------------------------------------------------------------
\* the stored frames that hold ProductRecords or MergedRecords
StockFrames ==
  {df \in {product_master, merged_data, merged_data_previous}
          \cup {periods_data[p].merged_data : p \in PeriodSet}
          \cup {periods_data[p].merged_data_previous : p \in PeriodSet} : ~IsNone(df)}

TotalStockIsSum(df) ==
  \A r \in Rows(df) :
    r.total_stock = IF AllStockCols \subseteq df.columns
                    THEN r.web_stock + r.adjust_stock + r.expected_stock
                    ELSE 0

C25_TotalStockNonNegative ==
  \A df \in StockFrames :
    /\ TotalStockIsSum(df)
    /\ \A r \in Rows(df) : r.total_stock >= 0

\* the sum rule alone, which the code keeps
StockSumRule == \A df \in StockFrames : TotalStockIsSum(df)

\* ------------------------------------------------------------------------
\* C26  Classification flags: for every record of a merge_and_analyze result,
\* is_problem holds exactly when total_stock >= stock threshold and
\* revenue <= revenue threshold, and is_opportunity exactly when
\* views >= views threshold, total_stock <= 5 and purchases < 0.05 * views;
\* each flag is decided without regard to the other, and a product without
\* facts is classified from its zero metrics.
\* ------------------------------------------------------------------------
StockThreshold == quantile(column(product_master.rows, "total_stock"), 7)

RevenueThreshold == quantile(JoinedFacts("revenue"), 3)

ViewsThreshold == quantile(JoinedFacts("views"), 7)

\* n >= t and n <= t for a whole number n and a threshold t
AtLeast(n, t) == n * t.den >= t.num

AtMost(n, t) == n * t.den <= t.num

C26_ClassificationFlags ==
  Reconciled =>
    \A r \in Rows(merged_data) :
      /\ r.is_problem <=>
           (AtLeast(r.total_stock, StockThreshold) /\ AtMost(r.revenue, RevenueThreshold))
      /\ r.is_opportunity <=>
           (/\ AtLeast(r.views, ViewsThreshold)
            /\ r.total_stock <= 5
            /\ 20 * r.purchases < r.views)
      /\ r.sku_id \notin FactSkus(ga_sales) =>
           /\ r.is_problem <=>
                (AtLeast(r.total_stock, StockThreshold) /\ AtMost(0, RevenueThreshold))
           /\ r.is_opportunity <=>
                (AtLeast(0, ViewsThreshold) /\ r.total_stock <= 5 /\ 0 < 0)

\* one record carries both flags, and a product without facts is flagged as a
\* problem from its zero revenue and not as an opportunity
C26_Witness ==
  /\ Reconciled
  /\ \E r \in Rows(merged_data) : r.is_problem /\ r.is_opportunity
  /\ \E r \in Rows(merged_data) :
       /\ r.sku_id \notin FactSkus(ga_sales)
       /\ r.is_problem /\ ~r.is_opportunity

\* ------------------------------------------------------------------------
\* C27  current_period names the period type of the data in the active slot:
\* after any sequence of switch, fetch-ga4, upload and scheduled-update
\* operations, every active fact batch fetched from the analytics API, current
\* or previous, was fetched for the period type current_period records (an
\* uploaded export carries no period type and is left out).
\* ------------------------------------------------------------------------
FetchedFor(d, p) ==
  \A b \in 1..Len(d) :
    d[b].v.period.period_type # "custom" =>
      /\ d[b].v.period.period_type = GaPeriodType(p)
      /\ d[b].v.period.days = Days(p)

C27_CurrentPeriodNamesActiveData ==
  pc = Idle => FetchedFor(ga_sales, current_period) /\ FetchedFor(ga_sales_previous, current_period)

\* ------------------------------------------------------------------------
\* C28  Access scoping of product data: a brand's product records are
\* returned only to a request with a logged-in session that is admin or has
\* that brand among its accessible brands; a request without a logged-in
\* session, or a brand-scoped session asking for another brand, gets no
\* record of that brand from brand_detail or api_products.
\* ------------------------------------------------------------------------
MayReceive(session, brand) ==
  session.logged_in /\ (session.is_admin \/ brand \in session.accessible_brands)

ScopedTo(session, products) ==
  \A i \in 1..Len(products) : MayReceive(session, products[i].brand)

RouteBrands == {"all", "rady", "cherimi"}

BrandDetailScoped ==
  \A session \in Sessions, brand_name \in RouteBrands :
    ScopedTo(session, brand_detail(session, brand_name, merged_data).products)

ApiProductsScoped ==
  \A session \in Sessions, brand \in RouteBrands, category \in Categories, limit \in {1, 2} :
    ScopedTo(session, api_products(brand, category, limit, merged_data).products)

C28_ProductDataScoped == BrandDetailScoped /\ ApiProductsScoped

\* ------------------------------------------------------------------------
\* C29  Current/previous coherence after a scheduled update: for every period
\* type and brand whose current-slot facts an iteration of scheduled_update
\* replaces, the previous-slot facts stored for that period type and brand
\* afterwards are the ones fetched in that iteration; a previous-slot batch
\* left by an earlier run never stays next to newly fetched current facts.
\* ------------------------------------------------------------------------
C29_PreviousFetchedWithCurrent ==
  [][\A w \in Worlds \ {"down"}, ok \in BOOLEAN :
       SchedFetch(w, ok) =>
         LET p == last'.period
             results == fetch_all_brands_data(IF ok THEN w ELSE "down", p)
         IN  \A b \in 1..Len(results) :
               /\ Entry(periods_data'[p].ga_sales, results[b].k) = results[b].v
               /\ Entry(periods_data'[p].ga_sales_previous, results[b].k)
                    = fetch_previous(IF ok THEN w ELSE "down", results[b].k, p)]_vars

\* ------------------------------------------------------------------------
\* A server that has been up for a day: started without product master
\* (init_from_r2 finds nothing), then one scheduled update in which every
\* fetch succeeded
\* ------------------------------------------------------------------------
FirstRunStore ==
  store_period_facts(
    store_period_facts(
      store_period_facts([p \in PeriodSet |-> EmptyPeriodData], period_types[1], "full"),
      period_types[2], "full"),
    period_types[3], "full")

FirstRunSummary ==
  summarize_fetch(
    summarize_fetch(
      summarize_fetch(NewSummary, period_types[1],
                      fetch_all_brands_data("full", period_types[1])),
      period_types[2], fetch_all_brands_data("full", period_types[2])),
    period_types[3], fetch_all_brands_data("full", period_types[3]))

AfterFirstRun ==
  /\ product_master = None
  /\ periods_data = FirstRunStore
  /\ ga_sales = switch_period_data(FirstRunStore[default_period], default_period).ga_sales
  /\ ga_sales_previous =
       switch_period_data(FirstRunStore[default_period], default_period).ga_sales_previous
  /\ channel_data =
       switch_period_data(FirstRunStore[default_period], default_period).channel_data
  /\ merged_data = None
  /\ merged_data_previous = None
  /\ current_period = default_period
  /\ pc = Idle
  /\ last = Step("sched_switch", default_period, "not_run")
  /\ results_summary = FirstRunSummary

InitScheduled == AfterFirstRun /\ ops = 0

NextScheduled ==
  \/ \E pmFile \in {"none", "bad", "file2", "nosku"},
        gaFiles \in [BrandSet -> {"none", "bad", "ok"}] : Upload(pmFile, gaFiles)
  \/ \E r2File \in {"none", "file1", "noexpected"} : SyncR2(r2File)
  \/ \E p \in PeriodSet, w \in Worlds : FetchGa4(p, w)
  \/ \E p \in PeriodSet : SwitchPeriod(p)
  \/ \E w \in Worlds \ {"down"}, ok \in BOOLEAN : SchedFetch(w, ok)
  \/ SchedSwitch
  \/ SchedMerge

SpecScheduled == InitScheduled /\ [][NextScheduled]_vars

\* ------------------------------------------------------------------------
\* Vocabulary of the scheduled update's summary
\* ------------------------------------------------------------------------
SchedOps == {"sched_fetch", "sched_switch", "sched_merge"}

\* the summary of the run says that the fetch for p failed
FailedInRun(summary, p) ==
  /\ ~IsNone(summary)
  /\ p \in DictKeys(summary.periods)
  /\ ~DictGet(summary.periods, p).success
  /\ \E i \in 1..Len(summary.errors) : summary.errors[i] = p

FetchedInRun(summary, p) ==
  /\ ~IsNone(summary)
  /\ p \in DictKeys(summary.periods)
  /\ DictGet(summary.periods, p).success

\* the MergedRecord set is the reconciliation of the facts d
ReconciledFrom(df, d) ==
  /\ ~IsNone(df)
  /\ df # KeyError
  /\ \A r \in Rows(df), x \in DeltaMetrics : r[x] = TotalOf(d, r.sku_id, x)

\* one iteration of the fetch loop: it ends in the summary as failed or as
\* fetched, a failed one stores nothing, a fetched one stores what it
\* fetched, and the loop goes on to the next period type either way
FetchIterationRule ==
  \A w \in Worlds \ {"down"}, ok \in BOOLEAN :
    SchedFetch(w, ok) =>
      LET p == last'.period
          results == fetch_all_brands_data(IF ok THEN w ELSE "down", p)
      IN  /\ FailedInRun(results_summary', p) <=> results = EmptyDict
          /\ FetchedInRun(results_summary', p) <=> results # EmptyDict
          /\ FailedInRun(results_summary', p) => periods_data' = periods_data
          /\ \A b \in 1..Len(results) :
               Entry(periods_data'[p].ga_sales, results[b].k) = results[b].v
          /\ pc'.at \in {"fetch", "switch"}
          /\ pc'.at = "fetch" => period_types[pc'.i - 1] = p
          /\ pc'.at = "switch" => p = period_types[Len(period_types)]

\* a step of the run and a period type whose fetch failed in it: the facts
\* stay, and the MergedRecord set stays or becomes the reconciliation of
\* those facts
FailedPeriodRule ==
  last'.op \in SchedOps =>
    \A p \in PeriodSet :
      FailedInRun(results_summary', p) =>
        /\ periods_data'[p].ga_sales = periods_data[p].ga_sales
        /\ \/ periods_data'[p].merged_data = periods_data[p].merged_data
           \/ /\ last'.op = "sched_merge"
              /\ last'.period = p
              /\ ReconciledFrom(periods_data'[p].merged_data, periods_data[p].ga_sales)

\* a reconciliation that ran for a period type leaves the reconciliation of
\* the facts stored for it
ReconcileRule ==
  (last'.op = "sched_merge" /\ last'.reconciled = "ok") =>
    ReconciledFrom(periods_data'[last'.period].merged_data,
                   periods_data'[last'.period].ga_sales)

\* ------------------------------------------------------------------------
\* C30  Failure independence in scheduled_update: when the fetch for one
\* period type returns no data or raises, the failure is recorded in the
\* returned summary, the facts stored for that period type stay as they
\* were, its MergedRecord set stays as it was or is replaced by the
\* reconciliation of those same facts, and the remaining period types are
\* still fetched, stored and reconciled in the same run.
\* ------------------------------------------------------------------------
C30_FailureIndependence ==
  [][FetchIterationRule /\ FailedPeriodRule /\ ReconcileRule]_vars

\* a run has returned: the fetch for 'weekly' failed, its facts of the run
\* before are still stored and reconciled, and the two other period types
\* were fetched and reconciled
C30_Witness ==
  /\ pc = Idle
  /\ last = Step("sched_switch", default_period, "not_run")
  /\ ~IsNone(product_master)
  /\ FailedInRun(results_summary, "weekly")
  /\ periods_data["weekly"].ga_sales = FirstRunStore["weekly"].ga_sales
  /\ ReconciledFrom(periods_data["weekly"].merged_data, periods_data["weekly"].ga_sales)
  /\ Rows(periods_data["weekly"].merged_data) # {}
  /\ \A p \in {"yesterday", "3days"} :
       /\ FetchedInRun(results_summary, p)
       /\ ReconciledFrom(periods_data[p].merged_data, periods_data[p].ga_sales)
       /\ Rows(periods_data[p].merged_data) # {}

\* the statement with "left as they were" for the MergedRecord set too: no
\* step of the run touches the facts or the MergedRecord set of a period
\* type whose fetch failed in the run
C30_FailedPeriodUntouched ==
  [][last'.op \in SchedOps =>
       \A p \in PeriodSet :
         FailedInRun(results_summary', p) =>
           /\ periods_data'[p].ga_sales = periods_data[p].ga_sales
           /\ periods_data'[p].merged_data = periods_data[p].merged_data]_vars

====
